---------------------------- MODULE Spec2Model ----------------------------
(***************************************************************************)
(* Statement / receipt ingestion pipeline of the personal finance backend. *)
(*                                                                         *)
(* Part 1: PDFService.parseTransactionStatement, the statement line parser *)
(* (backend/services/aiReceiptParser.js, lines 107-171) with its helpers   *)
(* parseDate, parseAmount and categorizeTransaction.                       *)
(* Part 2: the AI delegate's reply and AIStatementParserService            *)
(* .parseWithAI, the Transaction and Category collections, and the POST    *)
(* /statement and POST /receipt handlers (backend/routes/upload.js).       *)
(* Part 3: the amount extraction of OCRService.parseReceipt.               *)
(* Part 4: render_page, the page renderer of the PDF text extraction.      *)
(* Part 5: the start-up of the server with the initialization of the two   *)
(* AI parser modules, and authenticateToken in front of the routers.       *)
(* Part 6: the transaction routes (backend/routes/transactions.js).        *)
(*                                                                         *)
(* Strings are sequences of one-character strings, so that trimming,       *)
(* whitespace collapsing, lower-casing, joining and substring search are   *)
(* computed the way the JavaScript computes them.  Amounts are counted in  *)
(* hundredths (150.00 is 15000).  An ISO date "YYYY-MM-DD" is the triple   *)
(* <<YYYY, MM, DD>>.                                                       *)
(***************************************************************************)
EXTENDS Integers, Sequences, FiniteSets, TLC

VARIABLES
    text,               \* parser input: the statement text, one element per '\n'-separated line
    userId,             \* parser input: the caller's user id
    pc,                 \* position in parseTransactionStatement
    lines,              \* text.split('\n').map(trim)
    idx,                \* index in `lines` of the line the for-loop handles next
    transactions,       \* the result array
    descriptionBuffer,  \* buffered continuation lines
    bufferSrc,          \* history: the line numbers of the buffered lines
    upc,                \* upload handlers: position in the handler
    reqFile,            \* upload handlers: multer stored a file (req.file is set)
    fileExists,         \* upload handlers: the uploaded file is on disk
    reply,              \* upload handlers: the text of the AI delegate's reply
    candidates,         \* POST /statement: transactionsToInsert; POST /receipt: the new Transaction
    rows,               \* upload handlers: each candidate by how the store takes it
    stored,             \* upload handlers: the candidates the store holds
    categories,         \* the Category collection
    insertedCount,      \* POST /statement: the handler's insertedCount
    thrown,             \* upload handlers: the error caught by the handler's catch
    response,           \* upload handlers: the response sent
    trace,              \* history: the calls made and responses sent by the handler, in order
    opc,                \* OCRService.parseReceipt: position
    ocrText,            \* OCRService.parseReceipt: the raw OCR text
    result,             \* OCRService.parseReceipt: the result object (amount, confidence)
    apiKey,             \* server: process.env.GEMINI_API_KEY is defined
    boot,               \* server: position in the start-up of server.js
    loaded,             \* server: the AI parser modules whose initialization completed
    accounts,           \* the User collection: the ids of the users that exist
    request,            \* server: the request being served
    spc,                \* server: position of the request in the router's middleware chain
    reqUser,            \* server: req.user
    answer,             \* server: the status of the response sent (0: none yet)
    ran,                \* history: the middleware and handlers that ran for the request, in order
    pageItems,          \* render_page: textContent.items, each by its transform[5]
    itemIdx,            \* render_page: index of the item the for-loop handles next
    lastY,              \* render_page: the local lastY
    pageText,           \* render_page: the local text, one element per appended piece
    documents,          \* the Transaction collection as the transaction routes see it
    created,            \* number of Transaction _ids issued so far
    inflight,           \* transaction routes: the requests being handled, by slot
    issued              \* transaction routes: number of requests received so far

parserVars == <<text, userId, pc, lines, idx, transactions, descriptionBuffer, bufferSrc>>
uploadVars == <<upc, reqFile, fileExists, reply, candidates, rows, stored, categories,
                insertedCount, thrown, response, trace>>
uploadRest == <<upc, reqFile, fileExists, reply, candidates, rows, stored,
                insertedCount, thrown, response, trace>>
ocrVars == <<opc, ocrText, result>>
serverVars == <<apiKey, boot, loaded, accounts, request, spc, reqUser, answer, ran>>
pageVars == <<pageItems, itemIdx, lastY, pageText>>
routeVars == <<documents, created, inflight, issued>>
serviceVars == <<serverVars, pageVars, routeVars>>
vars == <<text, userId, pc, lines, idx, transactions, descriptionBuffer, bufferSrc,
          upc, reqFile, fileExists, reply, candidates, rows, stored, categories,
          insertedCount, thrown, response, trace, opc, ocrText, result,
          apiKey, boot, loaded, accounts, request, spc, reqUser, answer, ran,
          pageItems, itemIdx, lastY, pageText, documents, created, inflight, issued>>

\* JavaScript's null, where a string is expected
NULL == "null"

\* Longest statement text, in lines.
MaxLines == 4

\* Most candidates the AI parser returns for one statement.
MaxCandidates == 2

\* Most lines of an OCR text.
MaxFragments == 2

-----------------------------------------------------------------------------
(* Strings *)

IsSpace(c) == c = " "

RECURSIVE TrimLeft(_)
TrimLeft(s) == IF s # <<>> /\ IsSpace(Head(s)) THEN TrimLeft(Tail(s)) ELSE s

RECURSIVE TrimRight(_)
TrimRight(s) ==
    IF s # <<>> /\ IsSpace(s[Len(s)]) THEN TrimRight(SubSeq(s, 1, Len(s) - 1)) ELSE s

\* String.prototype.trim
Trim(s) == TrimRight(TrimLeft(s))

\* s.replace(/\s+/g, ' '): every run of whitespace becomes one space
RECURSIVE CollapseWhitespace(_)
CollapseWhitespace(s) ==
    IF s = <<>> THEN <<>>
    ELSE IF IsSpace(Head(s))
         THEN <<" ">> \o CollapseWhitespace(TrimLeft(s))
         ELSE <<Head(s)>> \o CollapseWhitespace(Tail(s))

\* Array.prototype.join(' ')
RECURSIVE JoinSpace(_)
JoinSpace(ss) ==
    IF ss = <<>> THEN <<>>
    ELSE IF Len(ss) = 1 THEN ss[1]
    ELSE ss[1] \o <<" ">> \o JoinSpace(Tail(ss))

StartsWith(s, p) == Len(s) >= Len(p) /\ SubSeq(s, 1, Len(p)) = p

Contains(s, p) == \E i \in 1..(Len(s) - Len(p) + 1) : SubSeq(s, i, i + Len(p) - 1) = p

UpperCase == <<"A","B","C","D","E","F","G","H","I","J","K","L","M",
               "N","O","P","Q","R","S","T","U","V","W","X","Y","Z">>
LowerCase == <<"a","b","c","d","e","f","g","h","i","j","k","l","m",
               "n","o","p","q","r","s","t","u","v","w","x","y","z">>

LowerChar(c) ==
    IF \E i \in 1..26 : UpperCase[i] = c
    THEN LowerCase[CHOOSE i \in 1..26 : UpperCase[i] = c]
    ELSE c

\* String.prototype.toLowerCase
ToLowerCase(s) == [i \in 1..Len(s) |-> LowerChar(s[i])]

-----------------------------------------------------------------------------
(* PDFService.parseDate: "DD/MM/YYYY" -> "YYYY-MM-DD" or null *)

IsLeapYear(y) == (y % 4 = 0 /\ y % 100 # 0) \/ y % 400 = 0

DaysInMonth(y, m) ==
    IF m = 2 THEN (IF IsLeapYear(y) THEN 29 ELSE 28)
    ELSE IF m \in {4, 6, 9, 11} THEN 30 ELSE 31

\* A date of the calendar.
IsCalendarDate(d, m, y) == m \in 1..12 /\ d \in 1..DaysInMonth(y, m)

\* new Date("YYYY-MM-DD") on Node.js (V8): the date-only ISO form is read as UTC;
\* the month must be 1..12 and the day 1..31, anything else is an Invalid Date.
\* A day past the end of its month is not rejected: the time value is built by
\* MakeDay, which carries it into the following month.
InvalidDate == <<>>

NewDate(y, m, d) ==
    IF m \notin 1..12 \/ d \notin 1..31 THEN InvalidDate
    ELSE IF d <= DaysInMonth(y, m) THEN <<y, m, d>>
    ELSE <<y, m + 1, d - DaysInMonth(y, m)>>

\* parseDate with day and month exchanged
parseDateSwapped(dateStr) == NewDate(dateStr[3], dateStr[1], dateStr[2])

\* dateStr is the captured "DD/MM/YYYY" as <<DD, MM, YYYY>>: split('/') always gives
\* three parts, and toISOString().split('T')[0] of a UTC midnight is the date itself.
\* The result is <<YYYY, MM, DD>>, or InvalidDate for null.
parseDate(dateStr) ==
    LET day == dateStr[1]
        month == dateStr[2]
        year == dateStr[3]
    IN NewDate(year, month, day)

-----------------------------------------------------------------------------
(* PDFService.parseAmount *)

Digits == <<"0","1","2","3","4","5","6","7","8","9">>
IsDigit(c) == \E i \in 1..10 : Digits[i] = c
DigitVal(c) == (CHOOSE i \in 1..10 : Digits[i] = c) - 1

\* s.replace(/[$,CR]/g, '')
RECURSIVE StripAmountChars(_)
StripAmountChars(s) ==
    IF s = <<>> THEN <<>>
    ELSE IF Head(s) \in {"$", ",", "C", "R"} THEN StripAmountChars(Tail(s))
    ELSE <<Head(s)>> \o StripAmountChars(Tail(s))

RECURSIVE DigitPrefix(_)
DigitPrefix(s) ==
    IF s # <<>> /\ IsDigit(Head(s)) THEN <<Head(s)>> \o DigitPrefix(Tail(s)) ELSE <<>>

RECURSIVE DigitsValue(_)
DigitsValue(ds) ==
    IF ds = <<>> THEN 0 ELSE 10 * DigitsValue(SubSeq(ds, 1, Len(ds) - 1)) + DigitVal(ds[Len(ds)])

NaN == [nan |-> TRUE, val |-> 0]

\* parseFloat of an unsigned decimal: the longest prefix digits[.digits] or .digits,
\* NaN when it holds no digit.  The value is in hundredths; the texts of the model
\* carry at most two decimals.
ParseFloat(s) ==
    LET int == DigitPrefix(s)
        rest == SubSeq(s, Len(int) + 1, Len(s))
        frac == IF rest # <<>> /\ Head(rest) = "." THEN DigitPrefix(Tail(rest)) ELSE <<>>
        hundredths == IF Len(frac) = 0 THEN 0
                      ELSE IF Len(frac) = 1 THEN 10 * DigitVal(frac[1])
                      ELSE 10 * DigitVal(frac[1]) + DigitVal(frac[2])
    IN IF int = <<>> /\ frac = <<>> THEN NaN
       ELSE [nan |-> FALSE, val |-> 100 * DigitsValue(int) + hundredths]

parseAmount(amountStr) ==
    IF amountStr = <<>> \/ Trim(amountStr) = <<>> THEN 0
    ELSE LET cleanAmount == Trim(StripAmountChars(amountStr))
             amount == ParseFloat(cleanAmount)
         IN IF amount.nan THEN 0 ELSE amount.val

-----------------------------------------------------------------------------
(* PDFService.categorizeTransaction *)

\* The rules in source order.  A pattern is the literal parts of one regex
\* alternative; between two parts the regex has \s*.
CategoryRules == <<
    [label |-> "Salary",
     patterns |-> <<<<<<"s","a","l","a","r","y">>>>,
                   <<<<"p","a","y","r","o","l","l">>>>>>],
    [label |-> "Investment",
     patterns |-> <<<<<<"i","n","t","e","r","e","s","t">>>>,
                   <<<<"c","r","e","d","i","t">>, <<"r","f","n","d">>>>>>],
    [label |-> "Food & Dining",
     patterns |-> <<<<<<"r","e","s","t","a","u","r","a","n","t">>>>,
                   <<<<"c","a","f","e">>>>,
                   <<<<"f","o","o","d">>>>,
                   <<<<"d","h","a","b","a">>>>,
                   <<<<"m","i","l","k">>>>>>],
    [label |-> "Food & Dining",
     patterns |-> <<<<<<"g","r","o","c","e","r","y">>>>,
                   <<<<"s","u","p","e","r","m","a","r","k","e","t">>>>>>],
    [label |-> "Transportation",
     patterns |-> <<<<<<"g","a","s">>>>,
                   <<<<"f","u","e","l">>>>,
                   <<<<"t","r","a","n","s","p","o","r","t">>>>>>],
    [label |-> "Shopping",
     patterns |-> <<<<<<"a","m","a","z","o","n">>>>,
                   <<<<"w","a","l","m","a","r","t">>>>,
                   <<<<"s","h","o","p","p","i","n","g">>>>,
                   <<<<"p","a","y","t","m">>>>,
                   <<<<"u","p","i">>>>>>],
    [label |-> "Entertainment",
     patterns |-> <<<<<<"n","e","t","f","l","i","x">>>>,
                   <<<<"s","p","o","t","i","f","y">>>>,
                   <<<<"m","o","v","i","e">>>>>>],
    [label |-> "Bills & Utilities",
     patterns |-> <<<<<<"u","t","i","l","i","t","y">>>>,
                   <<<<"e","l","e","c","t","r","i","c">>>>,
                   <<<<"i","n","t","e","r","n","e","t">>>>>>],
    [label |-> "Healthcare",
     patterns |-> <<<<<<"p","h","a","r","m","a","c","y">>>>,
                   <<<<"m","e","d","i","c","a","l">>>>>>],
    [label |-> "Travel",
     patterns |-> <<<<<<"f","l","i","g","h","t">>>>,
                   <<<<"h","o","t","e","l">>>>>>]
>>

\* From position i on, `parts` follow one another with any whitespace between.
RECURSIVE MatchesAt(_, _, _)
MatchesAt(s, i, parts) ==
    IF parts = <<>> THEN TRUE
    ELSE LET p == Head(parts)
         IN /\ i + Len(p) - 1 <= Len(s)
            /\ s[i] = p[1]
            /\ SubSeq(s, i, i + Len(p) - 1) = p
            /\ LET after == SubSeq(s, i + Len(p), Len(s))
                   skipped == Len(after) - Len(TrimLeft(after))
               IN MatchesAt(s, i + Len(p) + skipped, Tail(parts))

\* regex.test(s) for one alternative
PatternTest(s, parts) == \E i \in 1..Len(s) : MatchesAt(s, i, parts)

RuleTest(s, rule) == \E k \in 1..Len(rule.patterns) : PatternTest(s, rule.patterns[k])

\* the last matching rule wins
categorizeLastMatch(description, isExpense) ==
    LET lowerDesc == ToLowerCase(description)
        hits == {r \in 1..Len(CategoryRules) : RuleTest(lowerDesc, CategoryRules[r])}
    IN IF hits # {}
       THEN CategoryRules[CHOOSE r \in hits : \A q \in hits : r >= q].label
       ELSE IF isExpense THEN "Other Expenses" ELSE "Other Income"

\* The same text stands in AIStatementParserService (aiStatementParser.js, 82-95).
categorizeTransaction(description, isExpense) ==
    LET lowerDesc == ToLowerCase(description)
        hits == {r \in 1..Len(CategoryRules) : RuleTest(lowerDesc, CategoryRules[r])}
    IN IF hits # {}
       THEN CategoryRules[CHOOSE r \in hits : \A q \in hits : r <= q].label
       ELSE IF isExpense THEN "Other Expenses" ELSE "Other Income"

-----------------------------------------------------------------------------
(* Statement lines *)

\* A line of the statement text.  shape "anchor": the line matches anchorRegex, and
\* date, text, debit, credit are its capture groups 1, 2, 3, 4 (date as
\* <<DD, MM, YYYY>>).  shape "dated": the line starts with DD/MM/YYYY and does not
\* match anchorRegex; text is what follows the date.  shape "plain": any other
\* line; text is the whole line.
AnchorLine(date, desc, debit, credit) ==
    [shape |-> "anchor", date |-> date, text |-> desc, debit |-> debit, credit |-> credit]
DatedLine(date, rest) ==
    [shape |-> "dated", date |-> date, text |-> rest, debit |-> <<>>, credit |-> <<>>]
PlainLine(s) ==
    [shape |-> "plain", date |-> <<>>, text |-> s, debit |-> <<>>, credit |-> <<>>]

StartMarker == <<"B","A","L","A","N","C","E"," ","B","/","F">>
PageNo == <<"P","a","g","e"," ","N","o",":">>

\* "BALANCE B/F"
MarkerLine == PlainLine(StartMarker)
\* "01/02/2024 01/02/2024 UPI/PAYMENT TO SHOP 150.00  1000.00 CR"
AnchorExpense ==
    AnchorLine(<<1, 2, 2024>>,
               <<"U","P","I","/","P","A","Y","M","E","N","T"," ","T","O"," ","S","H","O","P">>,
               <<"1","5","0",".","0","0">>, <<>>)
\* "15/03/2024 15/03/2024 CREDIT  1,000.00 2000.00 CR"
AnchorIncome ==
    AnchorLine(<<15, 3, 2024>>, <<"C","R","E","D","I","T">>,
               <<>>, <<"1",",","0","0","0",".","0","0">>)
\* "29/02/2024 29/02/2024 ATM 5 7.50 2002.50 CR": debit and credit both set
AnchorBoth ==
    AnchorLine(<<29, 2, 2024>>, <<"A","T","M">>, <<"5">>, <<"7",".","5","0">>)
\* "02/02/2024 02/02/2024 B/F 0.00 , 1000.00 CR": a balance carry
AnchorZero ==
    AnchorLine(<<2, 2, 2024>>, <<"B","/","F">>, <<"0",".","0","0">>, <<",">>)
\* "31/04/2024 31/04/2024 FEE 20.00  980.00 CR": April has 30 days
AnchorDay31 ==
    AnchorLine(<<31, 4, 2024>>, <<"F","E","E">>, <<"2","0",".","0","0">>, <<>>)
\* "01/13/2024 01/13/2024 FEE 20.00  980.00 CR": there is no month 13
AnchorMonth13 ==
    AnchorLine(<<1, 13, 2024>>, <<"F","E","E">>, <<"2","0",".","0","0">>, <<>>)
\* " RFND  REF"
ContinuationLine == PlainLine(<<" ","R","F","N","D"," "," ","R","E","F">>)
\* "Page No: 2"
PageLine == PlainLine(<<"P","a","g","e"," ","N","o",":"," ","2">>)
\* "01/02/2024 OPENING"
DateOnlyLine == DatedLine(<<1, 2, 2024>>, <<" ","O","P","E","N","I","N","G">>)
\* ""
BlankLine == PlainLine(<<>>)

LineChoices ==
    {MarkerLine, AnchorExpense, AnchorIncome, AnchorBoth, AnchorZero, AnchorDay31,
     AnchorMonth13, ContinuationLine, PageLine, DateOnlyLine, BlankLine}

Users == {"u1"}

\* line.trim(): a plain line loses its leading and trailing whitespace; a line that
\* starts with a date loses what trails it, and the capture groups of an anchor line
\* are untouched.
TrimLine(line) ==
    IF line.shape = "plain" THEN [line EXCEPT !.text = Trim(@)]
    ELSE IF line.shape = "dated" THEN [line EXCEPT !.text = TrimRight(@)]
    ELSE line

\* line.length
LineLength(line) == IF line.shape = "plain" THEN Len(line.text) ELSE 10 + Len(line.text)

\* line.match(anchorRegex)
anchorMatch(line) == line.shape = "anchor"

\* /^\d{2}\/\d{2}\/\d{4}/.test(line)
DatePrefixed(line) == line.shape \in {"anchor", "dated"}

\* lines.findIndex(line => line.startsWith('BALANCE B/F')); NotFound is -1
NotFound == 0

\* line.startsWith('BALANCE B/F')
IsMarkerLine(line) == line.shape = "plain" /\ StartsWith(line.text, StartMarker)

findStartIndex(ls) ==
    LET hits == {i \in 1..Len(ls) : IsMarkerLine(ls[i])}
    IN IF hits = {} THEN NotFound ELSE CHOOSE i \in hits : \A j \in hits : i <= j

\* the early return taken also when the marker was found
MarkerMissingNever(startIndex) == FALSE

\* startIndex === -1
MarkerMissing(startIndex) == startIndex = NotFound

\* lines.slice(startIndex) starts here; slice(-1) is the last line
SliceStart(ls, startIndex) == IF startIndex = NotFound THEN Len(ls) ELSE startIndex

-----------------------------------------------------------------------------
(* PDFService.parseTransactionStatement *)

\* the flush without the whitespace collapse and the category
FlushBufferRaw(txs, buf, bsrc) ==
    [txs EXCEPT ![Len(txs)] =
        [@ EXCEPT !.description = @ \o <<" ">> \o JoinSpace(buf), !.src = @ \o bsrc]]

\* lastTx.description = (lastTx.description + ' ' + buffer.join(' ')).replace(/\s+/g, ' ').trim();
\* lastTx.category = categorizeTransaction(lastTx.description, lastTx.type === 'expense')
FlushBuffer(txs, buf, bsrc) ==
    LET lastTx == txs[Len(txs)]
        description == Trim(CollapseWhitespace(lastTx.description \o <<" ">> \o JoinSpace(buf)))
    IN [txs EXCEPT ![Len(txs)] =
           [lastTx EXCEPT !.description = description,
                          !.category = categorizeTransaction(description, lastTx.type = "expense"),
                          !.src = @ \o bsrc]]

\* zero/zero rows accepted
HasAmountLoose(debit, credit) == debit >= 0 \/ credit >= 0

\* debit > 0 || credit > 0
HasAmount(debit, credit) == debit > 0 \/ credit > 0

\* the credit column decides
IsExpenseByCredit(debit, credit) == credit = 0

\* const isExpense = debit > 0
IsExpense(debit, credit) == debit > 0

NewTransaction(line, i, uid, date) ==
    LET debit == parseAmount(line.debit)
        credit == parseAmount(line.credit)
        isExpense == IsExpense(debit, credit)
    IN [user_id |-> uid,
        amount |-> IF isExpense THEN debit ELSE credit,
        type |-> IF isExpense THEN "expense" ELSE "income",
        category |-> "Uncategorized",
        description |-> line.text,
        date |-> date,
        receipt_url |-> NULL,
        src |-> <<i>>]

\* buffering open from the first line on
BufferingOpenAlways(txs) == TRUE

\* else if (transactions.length > 0)
BufferingOpen(txs) == Len(txs) > 0

\* line.length > 1 && !/^\d{2}\/\d{2}\/\d{4}/.test(line) && !/Page No:/.test(line)
IsContinuation(line) ==
    LineLength(line) > 1 /\ ~DatePrefixed(line) /\ ~Contains(line.text, PageNo)

NoResult == [amount |-> [kind |-> "null", val |-> 0], confidence |-> "low"]

\* No request: the server is not serving one.
NoRequest == [route |-> "none", authorization |-> <<>>, file |-> FALSE]

IdleServer ==
    /\ apiKey = TRUE
    /\ boot = "off"
    /\ loaded = {}
    /\ accounts = {}
    /\ request = NoRequest
    /\ spc = "idle"
    /\ reqUser = NULL
    /\ answer = 0
    /\ ran = <<>>

\* let lastY: undefined until the first assignment
NoY == [defined |-> FALSE, y |-> 0]

IdlePage ==
    /\ pageItems = <<>>
    /\ itemIdx = 0
    /\ lastY = NoY
    /\ pageText = <<>>

IdleRoutes ==
    /\ documents = {}
    /\ created = 0
    /\ inflight = <<>>
    /\ issued = 0

IdleServices ==
    /\ IdleServer
    /\ IdlePage
    /\ IdleRoutes

IdleOCR ==
    /\ opc = "idle"
    /\ ocrText = <<>>
    /\ result = NoResult

NoResponse == [status |-> 0, total |-> 0, inserted |-> 0, skipped |-> 0]

IdleUpload ==
    /\ upc = "idle"
    /\ reqFile = FALSE
    /\ fileExists = FALSE
    /\ reply = <<>>
    /\ candidates = <<>>
    /\ rows = <<>>
    /\ stored = {}
    /\ categories = {}
    /\ insertedCount = 0
    /\ thrown = "none"
    /\ response = NoResponse
    /\ trace = <<>>

Texts == UNION {[1..n -> LineChoices] : n \in 1..MaxLines}

Init ==
    /\ text \in Texts
    /\ IdleOCR
    /\ IdleServices
    /\ userId \in Users
    /\ pc = "start"
    /\ lines = <<>>
    /\ idx = 0
    /\ transactions = <<>>
    /\ descriptionBuffer = <<>>
    /\ bufferSrc = <<>>
    /\ IdleUpload

\* lines 108-117: split, trim, look for the start marker
Start ==
    /\ pc = "start"
    /\ LET ls == [i \in 1..Len(text) |-> TrimLine(text[i])]
           startIndex == findStartIndex(ls)
       IN /\ lines' = ls
          /\ IF MarkerMissing(startIndex)
             THEN pc' = "done" /\ idx' = idx
             ELSE pc' = "loop" /\ idx' = SliceStart(ls, startIndex)
    /\ UNCHANGED <<text, userId, transactions, descriptionBuffer, bufferSrc>>
    /\ UNCHANGED <<uploadVars, ocrVars, serviceVars>>

\* lines 123-155: the loop body for a line that matches anchorRegex
LoopAnchor ==
    /\ pc = "loop"
    /\ idx <= Len(lines)
    /\ anchorMatch(lines[idx])
    /\ LET line == lines[idx]
           flushed == IF Len(transactions) > 0
                      THEN FlushBuffer(transactions, descriptionBuffer, bufferSrc)
                      ELSE transactions
           date == parseDate(line.date)
       IN transactions' =
              IF date = InvalidDate THEN flushed
              ELSE IF HasAmount(parseAmount(line.debit), parseAmount(line.credit))
                   THEN Append(flushed, NewTransaction(line, idx, userId, date))
                   ELSE flushed
    /\ descriptionBuffer' = <<>>
    /\ bufferSrc' = <<>>
    /\ idx' = idx + 1
    /\ UNCHANGED <<text, userId, pc, lines>>
    /\ UNCHANGED <<uploadVars, ocrVars, serviceVars>>

\* lines 156-160: the loop body for any other line
LoopOther ==
    /\ pc = "loop"
    /\ idx <= Len(lines)
    /\ ~anchorMatch(lines[idx])
    /\ IF BufferingOpen(transactions) /\ IsContinuation(lines[idx])
       THEN /\ descriptionBuffer' = Append(descriptionBuffer, lines[idx].text)
            /\ bufferSrc' = Append(bufferSrc, idx)
       ELSE UNCHANGED <<descriptionBuffer, bufferSrc>>
    /\ idx' = idx + 1
    /\ UNCHANGED <<text, userId, pc, lines, transactions>>
    /\ UNCHANGED <<uploadVars, ocrVars, serviceVars>>

\* lines 163-170: the flush at the end of the input, and the return
Finish ==
    /\ pc = "loop"
    /\ idx > Len(lines)
    /\ transactions' =
           IF Len(transactions) > 0 /\ Len(descriptionBuffer) > 0
           THEN FlushBuffer(transactions, descriptionBuffer, bufferSrc)
           ELSE transactions
    /\ pc' = "done"
    /\ UNCHANGED <<text, userId, lines, idx, descriptionBuffer, bufferSrc>>
    /\ UNCHANGED <<uploadVars, ocrVars, serviceVars>>

Next == Start \/ LoopAnchor \/ LoopOther \/ Finish

Spec == Init /\ [][Next]_vars

-----------------------------------------------------------------------------
(* The AI delegate's reply (response.text()) and what the parsers make of it *)

\* A JSON value in the reply.  kind "array": items are its elements; kind
\* "object": data is the object; kind "garbage": text that is not JSON.
NoData == [totalAmount |-> [kind |-> "undefined", val |-> 0],
           transactionDate |-> [kind |-> "undefined", ymd |-> <<>>],
           description |-> <<>>, missing |-> {}]
JsonArray(items) == [kind |-> "array", items |-> items, data |-> NoData]
JsonObject(data) == [kind |-> "object", items |-> <<>>, data |-> data]
JsonGarbage == [kind |-> "garbage", items |-> <<>>, data |-> NoData]
NoJson == [kind |-> "none", items |-> <<>>, data |-> NoData]

\* The reply text, cut in pieces: the opening fence (three backquotes and "json"),
\* a bare fence (three backquotes),
\* white space, a sentence of prose, and the JSON text itself.
FenceJson == [tok |-> "fence json", json |-> NoJson]
Fence == [tok |-> "fence", json |-> NoJson]
WhiteSpace == [tok |-> "\n", json |-> NoJson]
Prose == [tok |-> "Here is the JSON:", json |-> NoJson]
JsonText(v) == [tok |-> "json", json |-> v]

RECURSIVE SkipWhiteSpace(_)
SkipWhiteSpace(ts) ==
    IF ts # <<>> /\ Head(ts) = WhiteSpace THEN SkipWhiteSpace(Tail(ts)) ELSE ts

RECURSIVE DropWhiteSpaceRight(_)
DropWhiteSpaceRight(ts) ==
    IF ts # <<>> /\ ts[Len(ts)] = WhiteSpace
    THEN DropWhiteSpaceRight(SubSeq(ts, 1, Len(ts) - 1)) ELSE ts

\* responseText.replace(/^FENCEjson\s*|FENCE\s*$/g, ""), FENCE being three backquotes:
\* an opening fence with the white space after it goes when the text starts with it;
\* a bare fence with nothing but
\* white space between it and the end of the text goes too.
StripFence(ts) ==
    LET head == IF ts # <<>> /\ Head(ts) = FenceJson THEN SkipWhiteSpace(Tail(ts)) ELSE ts
        body == DropWhiteSpaceRight(head)
    IN IF body # <<>> /\ body[Len(body)] = Fence
       THEN SubSeq(body, 1, Len(body) - 1)
       ELSE head

\* JSON.parse: white space around one JSON text; anything else is a SyntaxError
SyntaxError == [kind |-> "SyntaxError", items |-> <<>>, data |-> NoData]

JSONParse(ts) ==
    LET inner == DropWhiteSpaceRight(SkipWhiteSpace(ts))
    IN IF Len(inner) = 1 /\ inner[1].tok = "json" /\ inner[1].json.kind # "garbage"
       THEN inner[1].json
       ELSE SyntaxError

\* The ways the delegate wraps its JSON: bare; in a json fence; in a json
\* fence with a trailing newline; in a fence without the language tag; after a
\* sentence of prose.
Wrappings(v) ==
    { <<JsonText(v)>>,
      <<FenceJson, WhiteSpace, JsonText(v), WhiteSpace, Fence>>,
      <<FenceJson, WhiteSpace, JsonText(v), WhiteSpace, Fence, WhiteSpace>>,
      <<Fence, WhiteSpace, JsonText(v), WhiteSpace, Fence>>,
      <<Prose, WhiteSpace, FenceJson, WhiteSpace, JsonText(v), WhiteSpace, Fence>> }

NoReply == <<>>

-----------------------------------------------------------------------------
(* AIStatementParserService.parseWithAI (backend/services/aiStatementParser.js) *)

\* One element of the reply's array.  amount is a JSON number or a JSON string
\* (val in hundredths); date is the "YYYY-MM-DD" string as <<YYYY, MM, DD>>; owner is
\* a userId property the delegate copied from the document (NULL: none); missing
\* names the properties the element does not have.
Number(v) == [kind |-> "number", val |-> v]
NumericString(v) == [kind |-> "string", val |-> v]
Undefined == [kind |-> "undefined", val |-> 0]

ReplyItem(date, description, amount, type, owner, missing) ==
    [date |-> date, description |-> description, amount |-> amount, type |-> type,
     owner |-> owner, missing |-> missing]

ForeignUser == "u2"

ItemSalary ==
    ReplyItem(<<2025, 7, 21>>, <<"M","o","n","t","h","l","y"," ","S","a","l","a","r","y"," ","P","a","y","m","e","n","t">>, Number(150000), "income", NULL, {})
ItemCoffee ==
    ReplyItem(<<2025, 7, 21>>, <<"S","T","A","R","B","U","C","K","S"," ","C","O","F","F","E","E">>, Number(450), "expense", ForeignUser, {})
ItemNoise ==
    ReplyItem(<<2025, 7, 22>>, <<"r","a","n","d","o","m"," ","n","o","i","s","e">>, Number(0), "expense", NULL, {})
ItemUpiFood ==
    ReplyItem(<<2025, 7, 23>>, <<"U","P","I"," ","F","O","O","D">>, Number(150000), "income", NULL, {})
ItemMonth13 ==
    ReplyItem(<<2025, 13, 1>>, <<"N","E","T","F","L","I","X">>, Number(1999), "expense", NULL, {})
ItemStringAmount ==
    ReplyItem(<<2025, 7, 24>>, <<"H","O","T","E","L">>, NumericString(1250), "expense", NULL, {})
ItemNoAmount ==
    ReplyItem(<<2025, 7, 25>>, <<"F","U","E","L">>, Undefined, "expense", NULL, {"amount"})
ItemNoDescription ==
    ReplyItem(<<2025, 7, 26>>, <<>>, Number(700), "expense", NULL, {"description"})

ReplyItems ==
    {ItemSalary, ItemCoffee, ItemNoise, ItemUpiFood, ItemMonth13, ItemStringAmount,
     ItemNoAmount, ItemNoDescription}

\* The JSON texts the delegate may send for a statement.
StatementBodies ==
    {JsonArray(items) : items \in UNION {[1..n -> ReplyItems] : n \in 0..MaxCandidates}}
        \cup {JsonObject(NoData), JsonGarbage}

StatementReplies == UNION {Wrappings(v) : v \in StatementBodies}

\* the candidate with the owner the reply names
CandidateKeepingOwner(tx, uid) ==
    [userId |-> IF tx.owner # NULL THEN tx.owner ELSE uid,
     amount |-> tx.amount,
     type |-> tx.type,
     category |-> categorizeTransaction(tx.description, tx.type = "expense"),
     description |-> tx.description,
     date |-> NewDate(tx.date[1], tx.date[2], tx.date[3]),
     receiptUrl |-> NULL]

\* lines 60-68: the callback of parsedTransactions.map
Candidate(tx, uid) ==
    [userId |-> uid,
     amount |-> tx.amount,
     type |-> tx.type,
     category |-> categorizeTransaction(tx.description, tx.type = "expense"),
     description |-> tx.description,
     date |-> NewDate(tx.date[1], tx.date[2], tx.date[3]),
     receiptUrl |-> NULL]

\* lines 53-68 throw: the text is not JSON (SyntaxError), the value is not an array
\* (map is not a function), or an element has no description (toLowerCase of undefined)
StatementParseThrows(ts) ==
    LET parsedTransactions == JSONParse(StripFence(ts))
    IN \/ parsedTransactions.kind # "array"
       \/ \E i \in 1..Len(parsedTransactions.items) :
             "description" \in parsedTransactions.items[i].missing

\* lines 53-68: the candidates returned for a reply that does not throw
StatementCandidates(ts, uid) ==
    LET parsedTransactions == JSONParse(StripFence(ts))
    IN [i \in 1..Len(parsedTransactions.items) |-> Candidate(parsedTransactions.items[i], uid)]

-----------------------------------------------------------------------------
(* The Transaction and Category collections (backend/models) *)

\* Category.getDefaultCategories: the records createDefaultCategories gives a user
\* at registration.
DefaultCategories(uid) ==
    {[name |-> n, type |-> "income", userId |-> uid] :
        n \in {"Salary", "Freelance", "Investment", "Other Income"}}
    \cup
    {[name |-> n, type |-> "expense", userId |-> uid] :
        n \in {"Food & Dining", "Transportation", "Shopping", "Entertainment",
               "Bills & Utilities", "Healthcare", "Education", "Travel", "Other Expenses"}}

\* transactionSchema's validation of a document: amount is a number or casts to one
\* and is at least 0 (min: 0), type is one of the enum, description is not empty
\* after the trim, date is not an Invalid Date.
SchemaValid(doc) ==
    /\ doc.amount.kind \in {"number", "string"}
    /\ doc.amount.val >= 0
    /\ doc.type \in {"income", "expense"}
    /\ Trim(doc.description) # <<>>
    /\ doc.date # InvalidDate

\* How the store takes one row of Transaction.insertMany(rows, { ordered: false }):
\*   "ok"       the row is inserted;
\*   "invalid"  the row fails the schema's validation: with ordered: false Mongoose
\*              leaves it out and inserts the rest, and the call resolves;
\*   "dup"      the server rejects the row (a write error): the other rows are
\*              inserted and the call rejects with the bulk write error.
RowKinds == {"ok", "invalid", "dup"}

RowSeqs == UNION {[1..n -> RowKinds] : n \in 0..MaxCandidates}

\* The ways the store may take the documents `docs`.
RowsFor(docs) ==
    {rs \in RowSeqs :
        /\ Len(rs) = Len(docs)
        /\ \A i \in 1..Len(docs) : (rs[i] = "invalid") <=> ~SchemaValid(docs[i])}

\* The rows insertMany leaves in the store: every row but the invalid and the rejected.
InsertedRows(rs) == {i \in 1..Len(rs) : rs[i] = "ok"}

-----------------------------------------------------------------------------
(* POST /api/upload/statement (backend/routes/upload.js, lines 123-172) *)

IdleParser ==
    /\ text = <<>>
    /\ userId = "u1"
    /\ pc = "idle"
    /\ lines = <<>>
    /\ idx = 0
    /\ transactions = <<>>
    /\ descriptionBuffer = <<>>
    /\ bufferSrc = <<>>

UploadInit ==
    /\ IdleParser
    /\ IdleOCR
    /\ IdleServices
    /\ upc = "received"
    /\ reqFile \in BOOLEAN
    /\ fileExists = reqFile
    /\ reply = NoReply
    /\ candidates = <<>>
    /\ rows = <<>>
    /\ stored = {}
    /\ categories = DefaultCategories(userId)
    /\ insertedCount = 0
    /\ thrown = "none"
    /\ response = NoResponse
    /\ trace = <<>>

\* lines 124-126: no file, 400, return before the try
NoFile ==
    /\ upc = "received"
    /\ ~reqFile
    /\ response' = [status |-> 400, total |-> 0, inserted |-> 0, skipped |-> 0]
    /\ trace' = Append(trace, "response")
    /\ upc' = "finished"
    /\ UNCHANGED <<reqFile, fileExists, reply, candidates, rows, stored, categories,
                   insertedCount, thrown>>
    /\ UNCHANGED <<parserVars, ocrVars, serviceVars>>

\* any text that came back counts
EnoughTextLoose(outcome) == outcome # "throws"

\* line 138: rawText && rawText.trim().length >= 50
EnoughText(outcome) == outcome = "text"

\* lines 137-140: PDFService.extractText throws, or returns too little text, or returns the text
ExtractText ==
    /\ upc = "received"
    /\ reqFile
    /\ \E outcome \in {"throws", "short", "text"} :
          /\ trace' = Append(trace, IF outcome = "throws" THEN "extractText throws"
                                    ELSE IF outcome = "short" THEN "extractText short"
                                    ELSE "extractText")
          /\ IF EnoughText(outcome)
             THEN upc' = "parsing" /\ thrown' = thrown
             ELSE upc' = "catch" /\ thrown' = "extract"
    /\ UNCHANGED <<reqFile, fileExists, reply, candidates, rows, stored, categories,
                   insertedCount, response>>
    /\ UNCHANGED <<parserVars, ocrVars, serviceVars>>

\* line 143: AIStatementParserService.parseWithAI.  generateContent rejects, or the
\* delegate replies and lines 53-68 throw or return the candidates.
ParseWithAI ==
    /\ upc = "parsing"
    /\ \/ /\ upc' = "catch"
          /\ thrown' = "ai"
          /\ trace' = Append(trace, "parseWithAI throws")
          /\ UNCHANGED <<reply, candidates, rows>>
       \/ \E r \in StatementReplies :
             /\ reply' = r
             /\ IF StatementParseThrows(r)
                THEN /\ upc' = "catch"
                     /\ thrown' = "ai"
                     /\ trace' = Append(trace, "parseWithAI throws")
                     /\ UNCHANGED <<candidates, rows>>
                ELSE /\ candidates' = StatementCandidates(r, userId)
                     /\ rows' \in RowsFor(StatementCandidates(r, userId))
                     /\ upc' = "persisting"
                     /\ thrown' = thrown
                     /\ trace' = Append(trace, "parseWithAI")
    /\ UNCHANGED <<reqFile, fileExists, stored, categories, insertedCount, response>>
    /\ UNCHANGED <<parserVars, ocrVars, serviceVars>>

\* the insert attempted whatever the number of candidates
HasCandidatesAlways(cs) == TRUE

\* line 146: transactionsToInsert.length > 0
HasCandidates(cs) == Len(cs) > 0

\* lines 145-150: insertMany when there is a candidate; the call may also fail as a
\* whole (no connection), with nothing inserted
Persist ==
    /\ upc = "persisting"
    /\ IF ~HasCandidates(candidates)
       THEN /\ upc' = "responding"
            /\ UNCHANGED <<stored, insertedCount, thrown, trace>>
       ELSE /\ trace' = Append(trace, "insertMany")
            /\ \/ /\ upc' = "catch"
                  /\ thrown' = "store"
                  /\ UNCHANGED <<stored, insertedCount>>
               \/ /\ stored' = InsertedRows(rows)
                  /\ IF \E i \in 1..Len(rows) : rows[i] = "dup"
                     THEN /\ upc' = "catch"
                          /\ thrown' = "bulkwrite"
                          /\ insertedCount' = insertedCount
                     ELSE /\ upc' = "responding"
                          /\ insertedCount' = Cardinality(InsertedRows(rows))
                          /\ thrown' = thrown
    /\ UNCHANGED <<reqFile, fileExists, reply, candidates, rows, categories, response>>
    /\ UNCHANGED <<parserVars, ocrVars, serviceVars>>

\* lines 152-158: the success response
Respond ==
    /\ upc = "responding"
    /\ response' = [status |-> 200, total |-> Len(candidates), inserted |-> insertedCount,
                    skipped |-> Len(candidates) - insertedCount]
    /\ trace' = Append(trace, "response")
    /\ upc' = "finally"
    /\ UNCHANGED <<reqFile, fileExists, reply, candidates, rows, stored, categories,
                   insertedCount, thrown>>
    /\ UNCHANGED <<parserVars, ocrVars, serviceVars>>

\* lines 160-165: the catch block
Catch ==
    /\ upc = "catch"
    /\ response' = [status |-> 500, total |-> 0, inserted |-> 0, skipped |-> 0]
    /\ trace' = Append(trace, "response")
    /\ upc' = "finally"
    /\ UNCHANGED <<reqFile, fileExists, reply, candidates, rows, stored, categories,
                   insertedCount, thrown>>
    /\ UNCHANGED <<parserVars, ocrVars, serviceVars>>

\* the file removed only when the request failed
CleanupOnFailureOnly ==
    /\ upc = "finally"
    /\ fileExists' = IF response.status = 200 THEN fileExists ELSE FALSE
    /\ upc' = "finished"
    /\ UNCHANGED <<reqFile, reply, candidates, rows, stored, categories, insertedCount,
                   thrown, response, trace>>
    /\ UNCHANGED <<parserVars, ocrVars, serviceVars>>

\* lines 166-171: the finally block
Cleanup ==
    /\ upc = "finally"
    /\ fileExists' = IF fileExists THEN FALSE ELSE fileExists
    /\ upc' = "finished"
    /\ UNCHANGED <<reqFile, reply, candidates, rows, stored, categories, insertedCount,
                   thrown, response, trace>>
    /\ UNCHANGED <<parserVars, ocrVars, serviceVars>>

UploadNext == NoFile \/ ExtractText \/ ParseWithAI \/ Persist \/ Respond \/ Catch \/ Cleanup

UploadSpec == UploadInit /\ [][UploadNext]_vars

-----------------------------------------------------------------------------
(* AIReceiptParserService.parseWithAI (backend/services/aiReceiptParser.js, 35-63) *)
(* and POST /api/upload/receipt (backend/routes/upload.js, lines 70-121)           *)

\* The object the delegate is asked for.  totalAmount is a JSON number, a JSON
\* string or null (val in hundredths); transactionDate is a "YYYY-MM-DD" string or
\* null; missing names the properties that are null.
Null == [kind |-> "null", val |-> 0]
DateString(y, m, d) == [kind |-> "string", ymd |-> <<y, m, d>>]
NullDate == [kind |-> "null", ymd |-> <<>>]

ReceiptData(totalAmount, transactionDate, description, missing) ==
    [totalAmount |-> totalAmount, transactionDate |-> transactionDate,
     description |-> description, missing |-> missing]

ReceiptWalmart == ReceiptData(Number(1575), DateString(2025, 7, 28), <<"W","a","l","m","a","r","t">>, {})
ReceiptNoDate == ReceiptData(Number(450), NullDate, <<"S","T","A","R","B","U","C","K","S"," ","C","O","F","F","E","E">>, {})
ReceiptZeroTotal == ReceiptData(Number(0), DateString(2025, 7, 28), <<"C","a","f","e">>, {})
ReceiptNoTotal == ReceiptData(Null, DateString(2025, 7, 28), <<"C","a","f","e">>, {"totalAmount"})
ReceiptNegativeTotal == ReceiptData(Number(-500), DateString(2025, 7, 28), <<"C","a","f","e">>, {})
ReceiptMonth13 == ReceiptData(Number(1999), DateString(2025, 13, 1), <<"C","a","f","e">>, {})
ReceiptNoDescription == ReceiptData(Number(700), DateString(2025, 7, 28), <<>>, {"description"})
ReceiptStringTotal == ReceiptData(NumericString(1575), DateString(2025, 7, 28), <<"W","a","l","m","a","r","t">>, {})

ReceiptBodies ==
    {JsonObject(d) : d \in {ReceiptWalmart, ReceiptNoDate, ReceiptZeroTotal, ReceiptNoTotal,
                            ReceiptNegativeTotal, ReceiptMonth13, ReceiptNoDescription,
                            ReceiptStringTotal}}
        \cup {JsonArray(<<>>), JsonGarbage}

ReceiptReplies == UNION {Wrappings(v) : v \in ReceiptBodies}

\* lines 55-57 throw: the text is not JSON
ReceiptParseThrows(ts) == JSONParse(StripFence(ts)).kind = "SyntaxError"

\* lines 55-57: result.data
ReceiptParsedData(ts) == JSONParse(StripFence(ts)).data

\* a test for null and undefined only
FalsyNullish(v) == v.kind \in {"null", "undefined"}

\* !result.data.totalAmount: null, undefined, 0 and "" are falsy
Falsy(v) == v.kind \in {"null", "undefined"} \/ (v.kind = "number" /\ v.val = 0)

\* new Date(): the day the request is handled
Today == <<2026, 1, 15>>

\* description || 'Transaction from receipt'
DefaultDescription == <<"T","r","a","n","s","a","c","t","i","o","n"," ","f","r","o","m"," ","r","e","c","e","i","p","t">>

\* lines 95-103: the new Transaction
ReceiptTransaction(data, uid) ==
    [userId |-> uid,
     amount |-> data.totalAmount,
     type |-> "expense",
     category |-> categorizeTransaction(data.description, TRUE),
     description |-> IF data.description = <<>> THEN DefaultDescription ELSE data.description,
     date |-> IF data.transactionDate.kind = "null" THEN Today
              ELSE NewDate(data.transactionDate.ymd[1], data.transactionDate.ymd[2],
                           data.transactionDate.ymd[3]),
     receiptUrl |-> "/uploads/file"]

ReceiptInit ==
    /\ IdleParser
    /\ IdleOCR
    /\ IdleServices
    /\ upc = "receipt received"
    /\ reqFile \in BOOLEAN
    /\ fileExists = reqFile
    /\ reply = NoReply
    /\ candidates = <<>>
    /\ rows = <<>>
    /\ stored = {}
    /\ categories = DefaultCategories(userId)
    /\ insertedCount = 0
    /\ thrown = "none"
    /\ response = NoResponse
    /\ trace = <<>>

\* lines 71-73: no file, 400
ReceiptNoFile ==
    /\ upc = "receipt received"
    /\ ~reqFile
    /\ response' = [status |-> 400, total |-> 0, inserted |-> 0, skipped |-> 0]
    /\ trace' = Append(trace, "response")
    /\ upc' = "finished"
    /\ UNCHANGED <<reqFile, fileExists, reply, candidates, rows, stored, categories,
                   insertedCount, thrown>>
    /\ UNCHANGED <<parserVars, ocrVars, serviceVars>>

\* line 83: AIReceiptParserService.parseWithAI.  Reading the image or generateContent
\* throws, or the delegate replies and lines 55-57 throw or return the data.
ReceiptParseWithAI ==
    /\ upc = "receipt received"
    /\ reqFile
    /\ \/ /\ upc' = "receipt catch"
          /\ thrown' = "ai"
          /\ trace' = Append(trace, "parseWithAI throws")
          /\ reply' = reply
       \/ \E r \in ReceiptReplies :
             /\ reply' = r
             /\ IF ReceiptParseThrows(r)
                THEN /\ upc' = "receipt catch"
                     /\ thrown' = "ai"
                     /\ trace' = Append(trace, "parseWithAI throws")
                ELSE /\ upc' = "receipt parsed"
                     /\ thrown' = thrown
                     /\ trace' = Append(trace, "parseWithAI")
    /\ UNCHANGED <<reqFile, fileExists, candidates, rows, stored, categories,
                   insertedCount, response>>
    /\ UNCHANGED <<parserVars, ocrVars, serviceVars>>

\* lines 85-103: 400 when there is no total; else the new Transaction, where
\* categorizeTransaction throws on a null description (toLowerCase of null)
ReceiptBuild ==
    /\ upc = "receipt parsed"
    /\ LET data == ReceiptParsedData(reply)
       IN IF Falsy(data.totalAmount)
          THEN /\ response' = [status |-> 400, total |-> 0, inserted |-> 0, skipped |-> 0]
               /\ trace' = Append(trace, "response")
               /\ upc' = "receipt finally"
               /\ UNCHANGED <<candidates, rows, thrown>>
          ELSE IF "description" \in data.missing
          THEN /\ upc' = "receipt catch"
               /\ thrown' = "categorize"
               /\ UNCHANGED <<candidates, rows, response, trace>>
          ELSE /\ candidates' = <<ReceiptTransaction(data, userId)>>
               /\ rows' \in RowsFor(<<ReceiptTransaction(data, userId)>>)
               /\ upc' = "receipt saving"
               /\ UNCHANGED <<thrown, response, trace>>
    /\ UNCHANGED <<reqFile, fileExists, reply, stored, categories, insertedCount>>
    /\ UNCHANGED <<parserVars, ocrVars, serviceVars>>

\* line 105: transaction.save() stores the document, or rejects (validation, the server)
ReceiptSave ==
    /\ upc = "receipt saving"
    /\ trace' = Append(trace, "save")
    /\ IF rows[1] = "ok"
       THEN /\ stored' = {1}
            /\ upc' = "receipt responding"
            /\ thrown' = thrown
       ELSE /\ stored' = stored
            /\ upc' = "receipt catch"
            /\ thrown' = "store"
    /\ UNCHANGED <<reqFile, fileExists, reply, candidates, rows, categories,
                   insertedCount, response>>
    /\ UNCHANGED <<parserVars, ocrVars, serviceVars>>

\* lines 107-112: the success response
ReceiptRespond ==
    /\ upc = "receipt responding"
    /\ response' = [status |-> 200, total |-> 1, inserted |-> 1, skipped |-> 0]
    /\ trace' = Append(trace, "response")
    /\ upc' = "receipt finally"
    /\ UNCHANGED <<reqFile, fileExists, reply, candidates, rows, stored, categories,
                   insertedCount, thrown>>
    /\ UNCHANGED <<parserVars, ocrVars, serviceVars>>

\* lines 114-116: the catch block
ReceiptCatch ==
    /\ upc = "receipt catch"
    /\ response' = [status |-> 500, total |-> 0, inserted |-> 0, skipped |-> 0]
    /\ trace' = Append(trace, "response")
    /\ upc' = "receipt finally"
    /\ UNCHANGED <<reqFile, fileExists, reply, candidates, rows, stored, categories,
                   insertedCount, thrown>>
    /\ UNCHANGED <<parserVars, ocrVars, serviceVars>>

\* lines 117-120: the finally block holds no statement; the file stays
ReceiptFinally ==
    /\ upc = "receipt finally"
    /\ upc' = "finished"
    /\ UNCHANGED <<reqFile, fileExists, reply, candidates, rows, stored, categories,
                   insertedCount, thrown, response, trace>>
    /\ UNCHANGED <<parserVars, ocrVars, serviceVars>>

ReceiptNext ==
    \/ ReceiptNoFile \/ ReceiptParseWithAI \/ ReceiptBuild \/ ReceiptSave
    \/ ReceiptRespond \/ ReceiptCatch \/ ReceiptFinally

ReceiptSpec == ReceiptInit /\ [][ReceiptNext]_vars

-----------------------------------------------------------------------------
(* The two statement parsers side by side: a behaviour is a run of                *)
(* PDFService.parseTransactionStatement or a statement upload parsed by           *)
(* AIStatementParserService.parseWithAI.                                          *)

StatementParsersInit == Init \/ UploadInit

StatementParsersNext == Next \/ UploadNext

StatementParsersSpec == StatementParsersInit /\ [][StatementParsersNext]_vars

-----------------------------------------------------------------------------
(* OCRService.parseReceipt, the amount (backend/services/aiStatementParser.js, *)
(* lines 156-175)                                                              *)

\* The index of the first character from j on that is not in `skip`.
RECURSIVE SkipChars(_, _, _)
SkipChars(s, j, skip) ==
    IF j <= Len(s) /\ s[j] \in skip THEN SkipChars(s, j + 1, skip) ELSE j

DigitAt(s, j) == j <= Len(s) /\ IsDigit(s[j])

RECURSIVE DigitRunEnd(_, _)
DigitRunEnd(s, j) == IF DigitAt(s, j) THEN DigitRunEnd(s, j + 1) ELSE j

\* (\d+\.?\d*) from a digit at j: the index after the capture
NumberEnd(s, j) ==
    LET e == DigitRunEnd(s, j)
    IN IF e <= Len(s) /\ s[e] = "." THEN DigitRunEnd(s, e + 1) ELSE e

\* /word[\s:]*\$?(\d+\.?\d*)/i matches at i: the index of the capture, 0 for no match
LabelCaptureAt(s, i, word) ==
    IF i + Len(word) - 1 <= Len(s) /\ ToLowerCase(SubSeq(s, i, i + Len(word) - 1)) = word
    THEN LET j == SkipChars(s, i + Len(word), {" ", "\n", ":"})
             k == IF j <= Len(s) /\ s[j] = "$" THEN j + 1 ELSE j
         IN IF DigitAt(s, k) THEN k ELSE 0
    ELSE 0

\* /\$(\d+\.?\d*)/ matches at i
CurrencyAt(s, i) == i <= Len(s) /\ s[i] = "$" /\ DigitAt(s, i + 1)

\* /(\d+\.?\d*)[\s]*total/i matches at i
TrailingTotalAt(s, i) ==
    /\ DigitAt(s, i)
    /\ LET j == SkipChars(s, NumberEnd(s, i), {" ", "\n"})
       IN j + 4 <= Len(s) /\ ToLowerCase(SubSeq(s, j, j + 4)) = <<"t","o","t","a","l">>

\* String.prototype.match with a pattern that has no g flag gives the leftmost
\* match, and matches[1] is its capture; with the g flag it gives the matched texts
\* alone, one after the other, so matches[1] is the second matched text.  The value
\* is the string handed to parseFloat (matches[1] || matches[0]), <<>> for no match.
Least(S) == CHOOSE i \in S : \A j \in S : i <= j

MatchedText(s, pattern) ==
    IF pattern.kind = "label"
    THEN LET at == {i \in 1..Len(s) : LabelCaptureAt(s, i, pattern.word) # 0}
         IN IF at = {} THEN <<>>
            ELSE LET k == LabelCaptureAt(s, Least(at), pattern.word)
                 IN SubSeq(s, k, NumberEnd(s, k) - 1)
    ELSE IF pattern.kind = "currency"
    THEN LET at == {i \in 1..Len(s) : CurrencyAt(s, i)}
         IN IF at = {} THEN <<>>
            ELSE LET first == Least(at)
                     second == IF at = {first} THEN first ELSE Least(at \ {first})
                 IN SubSeq(s, second, NumberEnd(s, second + 1) - 1)
    ELSE LET at == {i \in 1..Len(s) : TrailingTotalAt(s, i)}
         IN IF at = {} THEN <<>>
            ELSE SubSeq(s, Least(at), NumberEnd(s, Least(at)) - 1)

\* lines 157-163, in order
amountPatterns == <<
    [kind |-> "label", word |-> <<"t","o","t","a","l">>],
    [kind |-> "label", word |-> <<"a","m","o","u","n","t">>],
    [kind |-> "label", word |-> <<"d","u","e">>],
    [kind |-> "currency", word |-> <<>>],
    [kind |-> "trailing total", word |-> <<>>]
>>

\* 10000, in hundredths
AmountLimit == 1000000

\* line 169: amount > 0 && amount < 10000 (false for NaN)
ReasonableAmount(amount) == ~amount.nan /\ amount.val > 0 /\ amount.val < AmountLimit

\* lines 165-175: the patterns whose match is accepted
AcceptedPatterns(s) ==
    {p \in 1..Len(amountPatterns) :
        /\ MatchedText(s, amountPatterns[p]) # <<>>
        /\ ReasonableAmount(ParseFloat(MatchedText(s, amountPatterns[p])))}

\* The lines of an OCR text.
\* "Total: $0.00"
TotalZero == <<"T","o","t","a","l",":"," ","$","0",".","0","0">>
\* "TOTAL 12.50"
TotalPlain == <<"T","O","T","A","L"," ","1","2",".","5","0">>
\* "Amount: 10000"
AmountLimitLine == <<"A","m","o","u","n","t",":"," ","1","0","0","0","0">>
\* "amount 45."
AmountTrailingDot == <<"a","m","o","u","n","t"," ","4","5",".">>
\* "Due $7"
DueDollar == <<"D","u","e"," ","$","7">>
\* "$12.50"
DollarOnly == <<"$","1","2",".","5","0">>
\* "3.00 total"
TrailingTotal == <<"3",".","0","0"," ","t","o","t","a","l">>
\* "Walmart"
StoreName == <<"W","a","l","m","a","r","t">>
OCRFragments ==
    {TotalZero, TotalPlain, AmountLimitLine, AmountTrailingDot, DueDollar, DollarOnly,
     TrailingTotal, StoreName}

RECURSIVE JoinLines(_)
JoinLines(ss) ==
    IF Len(ss) = 1 THEN ss[1] ELSE ss[1] \o <<"\n">> \o JoinLines(Tail(ss))

OCRTexts == {JoinLines(ss) : ss \in UNION {[1..n -> OCRFragments] : n \in 1..MaxFragments}}

OCRInit ==
    /\ IdleParser
    /\ IdleUpload
    /\ IdleServices
    /\ opc = "start"
    /\ ocrText \in OCRTexts
    /\ result = NoResult

\* lines 148-175: result starts with amount null and confidence 'low'; the first
\* pattern with an accepted match sets the amount and confidence 'medium'
ParseReceiptAmount ==
    /\ opc = "start"
    /\ LET accepted == AcceptedPatterns(ocrText)
       IN result' =
              IF accepted = {} THEN NoResult
              ELSE [amount |-> [kind |-> "number",
                                val |-> ParseFloat(MatchedText(ocrText,
                                            amountPatterns[Least(accepted)])).val],
                    confidence |-> "medium"]
    /\ opc' = "done"
    /\ UNCHANGED ocrText
    /\ UNCHANGED <<parserVars, uploadVars, serviceVars>>

OCRNext == ParseReceiptAmount

OCRSpec == OCRInit /\ [][OCRNext]_vars

-----------------------------------------------------------------------------
(* Vocabulary of the properties of the statement line parser *)

\* The parser is past the start marker and has handled line i.
Handled(i) ==
    /\ i \in 1..Len(lines)
    /\ findStartIndex(lines) # NotFound
    /\ findStartIndex(lines) <= i
    /\ i < idx

\* The line's debit or credit column is a non-zero amount.
NonZeroAmount(line) == parseAmount(line.debit) # 0 \/ parseAmount(line.credit) # 0

\* A valid anchor line: it matches the anchor pattern, its date is a date of the
\* calendar and one of its amounts is non-zero.
ValidAnchor(line) ==
    /\ anchorMatch(line)
    /\ IsCalendarDate(line.date[1], line.date[2], line.date[3])
    /\ NonZeroAmount(line)

\* The first anchor-matching line after line i, or the end of the text.
NextAnchor(i) ==
    LET later == {j \in (i + 1)..Len(lines) : anchorMatch(lines[j])}
    IN IF later = {} THEN Len(lines) + 1 ELSE CHOOSE j \in later : \A k \in later : j <= k

RECURSIVE Ascending(_)
Ascending(S) ==
    IF S = {} THEN <<>>
    ELSE LET m == CHOOSE x \in S : \A y \in S : x <= y
         IN <<m>> \o Ascending(S \ {m})

\* The continuation lines of anchor line i: the lines between it and the next
\* anchor-matching line that are non-trivial, in text order.
OwnContinuations(i) ==
    Ascending({j \in (i + 1)..(NextAnchor(i) - 1) : IsContinuation(lines[j])})

\* The text fragments a candidate was built from, joined by one space and
\* whitespace-collapsed.
JoinedFragments(tx) ==
    Trim(CollapseWhitespace(JoinSpace([k \in 1..Len(tx.src) |-> lines[tx.src[k]].text])))

TxIndexes == 1..Len(transactions)

-----------------------------------------------------------------------------
\* C1: once the parser has returned, every valid anchor line after the start marker
\* that has continuation lines before the next anchor line has a candidate whose
\* description carries those lines right after the anchor's fragment, in order,
\* joined by single spaces and whitespace-collapsed, and whose category is the
\* categorizer's answer for that extended description.  The flush by the next
\* anchor and the flush at the end of the input are both covered.
C1_ContinuationsAppended ==
    pc = "done" =>
        \A i \in 1..Len(lines) :
            (Handled(i) /\ ValidAnchor(lines[i]) /\ OwnContinuations(i) # <<>>) =>
                \E n \in TxIndexes :
                    LET tx == transactions[n]
                        own == OwnContinuations(i)
                    IN /\ tx.src[1] = i
                       /\ Len(tx.src) >= 1 + Len(own)
                       /\ SubSeq(tx.src, 2, 1 + Len(own)) = own
                       /\ tx.description = JoinedFragments(tx)
                       /\ tx.category = categorizeTransaction(tx.description, tx.type = "expense")

\* "CREDIT" alone is Other Income; with " RFND  REF" appended at the next anchor it
\* reads "CREDIT RFND REF" and is an Investment.
C1_Witness ==
    /\ pc = "done"
    /\ text = <<MarkerLine, AnchorIncome, ContinuationLine, AnchorExpense>>
    /\ Len(transactions) = 2
    /\ transactions[1].description =
           <<"C","R","E","D","I","T"," ","R","F","N","D"," ","R","E","F">>
    /\ transactions[1].category = "Investment"

-----------------------------------------------------------------------------
\* C2: once the parser has returned, every valid anchor line after the start marker
\* has a candidate, and a candidate is an expense when its anchor's debit column is non-zero (whatever the
\* credit column holds) and an income when the debit is zero and the credit is not.
C2_TypeFromColumns ==
    pc = "done" =>
        /\ \A i \in 1..Len(lines) :
              (Handled(i) /\ ValidAnchor(lines[i])) =>
                  \E n \in TxIndexes : transactions[n].src[1] = i
        /\ \A n \in TxIndexes :
              LET line == lines[transactions[n].src[1]]
                  debit == parseAmount(line.debit)
                  credit == parseAmount(line.credit)
              IN /\ debit # 0 => transactions[n].type = "expense"
                 /\ (debit = 0 /\ credit # 0) => transactions[n].type = "income"

\* debit 5 and credit 7.50 on one line: an expense of 5.00; credit alone: an income
C2_Witness ==
    /\ pc = "done"
    /\ text = <<MarkerLine, AnchorBoth, AnchorIncome>>
    /\ Len(transactions) = 2
    /\ transactions[1].type = "expense" /\ transactions[1].amount = 500
    /\ transactions[2].type = "income" /\ transactions[2].amount = 100000

-----------------------------------------------------------------------------
\* C3: when no line of the text starts with "BALANCE B/F", the parser's first step
\* ends the call (there is no failure state to go to) and the result is the empty
\* list, also when the text holds anchor-shaped lines.
C3_NoMarkerNoCandidates ==
    (pc # "start" /\ \A i \in 1..Len(lines) : ~IsMarkerLine(lines[i])) =>
        /\ pc = "done"
        /\ transactions = <<>>

C3_Witness ==
    /\ pc = "done"
    /\ text = <<AnchorExpense, ContinuationLine, AnchorIncome>>
    /\ transactions = <<>>

-----------------------------------------------------------------------------
\* C4 (as claimed): with k valid anchor lines after the start marker the parser
\* returns exactly k candidates, in text order, and the description of each is made
\* of its anchor's fragment followed by exactly its own continuation lines.
C4_OneCandidatePerValidAnchor ==
    (pc = "done" /\ findStartIndex(lines) # NotFound) =>
        LET valid == Ascending({i \in 1..Len(lines) : Handled(i) /\ ValidAnchor(lines[i])})
        IN /\ Len(transactions) = Len(valid)
           /\ \A n \in 1..Len(valid) :
                 n <= Len(transactions) =>
                    transactions[n].src = <<valid[n]>> \o OwnContinuations(valid[n])

-----------------------------------------------------------------------------
\* C5: every candidate the parser returns has amount > 0 and type income or expense, and no candidate
\* comes from an anchor line whose debit and credit both parse to zero.
C5_PositiveAmount ==
    pc = "done" =>
        \A n \in TxIndexes :
            /\ transactions[n].amount > 0
            /\ transactions[n].type \in {"income", "expense"}
            /\ NonZeroAmount(lines[transactions[n].src[1]])

\* the zero/zero line between two transactions left no candidate
C5_Witness ==
    /\ pc = "done"
    /\ text = <<MarkerLine, AnchorExpense, AnchorZero, AnchorIncome>>
    /\ Len(transactions) = 2
    /\ transactions[1].src[1] = 2
    /\ transactions[2].src[1] = 4

-----------------------------------------------------------------------------
\* C6 (as claimed): every returned candidate comes from an anchor line whose DD/MM/YYYY is a
\* date of the calendar, and carries that very date.
C6_InvalidDateSkipped ==
    pc = "done" =>
        \A n \in TxIndexes :
            LET date == lines[transactions[n].src[1]].date
            IN /\ IsCalendarDate(date[1], date[2], date[3])
               /\ transactions[n].date = <<date[3], date[2], date[1]>>

-----------------------------------------------------------------------------
\* C7: nothing is buffered while no transaction has been emitted, and every
\* fragment appended to a candidate's description comes from a line after the
\* anchor line of the first emitted transaction.
C7_NoBufferingBeforeFirstTransaction ==
    /\ Len(transactions) = 0 => (descriptionBuffer = <<>> /\ bufferSrc = <<>>)
    /\ \A n \in TxIndexes :
          \A k \in 2..Len(transactions[n].src) :
              transactions[n].src[k] > transactions[1].src[1]

\* the continuation line after the marker and after a skipped anchor, before the
\* first transaction, is in no description
C7_Witness ==
    /\ pc = "done"
    /\ text = <<MarkerLine, AnchorZero, ContinuationLine, AnchorExpense>>
    /\ Len(transactions) = 1
    /\ transactions[1].src = <<4>>
    /\ transactions[1].description = AnchorExpense.text

-----------------------------------------------------------------------------
\* C8: a returned candidate whose anchor line carries the calendar date DD/MM/YYYY has the
\* date YYYY-MM-DD, and when the debit is non-zero its amount is the debit; the text
\* "BALANCE B/F" + "01/02/2024 01/02/2024 UPI/PAYMENT TO SHOP 150.00  1000.00 CR"
\* gives exactly one candidate: expense, 150.00, 2024-02-01.
C8_DateAndDebit ==
    pc = "done" =>
        /\ \A n \in TxIndexes :
              LET line == lines[transactions[n].src[1]]
              IN /\ IsCalendarDate(line.date[1], line.date[2], line.date[3]) =>
                        transactions[n].date = <<line.date[3], line.date[2], line.date[1]>>
                 /\ parseAmount(line.debit) # 0 =>
                        transactions[n].amount = parseAmount(line.debit)
        /\ text = <<MarkerLine, AnchorExpense>> =>
              /\ Len(transactions) = 1
              /\ transactions[1].amount = 15000
              /\ transactions[1].date = <<2024, 2, 1>>
              /\ transactions[1].type = "expense"

C8_Witness ==
    /\ pc = "done"
    /\ text = <<MarkerLine, AnchorExpense>>
    /\ Len(transactions) = 1
    /\ transactions[1].date = <<2024, 2, 1>>

-----------------------------------------------------------------------------
\* C9 (as claimed): a statement upload that reaches the insert and meets only
\* row-level failures ends with the other rows stored and a success response that
\* reports inserted = n - k and skipped = k, for n candidates of which k fail.
C9_RowFailuresCounted ==
    (upc = "finished" /\ reqFile /\ thrown \in {"none", "bulkwrite"}) =>
        LET n == Len(rows)
            k == Cardinality({i \in 1..Len(rows) : rows[i] # "ok"})
        IN /\ stored = {i \in 1..Len(rows) : rows[i] = "ok"}
           /\ response.status = 200
           /\ response.inserted = n - k
           /\ response.skipped = k

-----------------------------------------------------------------------------
\* C10: when a statement upload that received a file has finished, the uploaded PDF
\* is no longer on disk, whichever way the request went.
C10_TempFileRemoved ==
    (upc = "finished" /\ reqFile) => ~fileExists

\* a partial persistence failure: rows were stored, the insert rejected, 500 sent
C10_Witness ==
    /\ upc = "finished"
    /\ reqFile
    /\ thrown = "bulkwrite"
    /\ stored # {}
    /\ response.status = 500
    /\ ~fileExists

-----------------------------------------------------------------------------
\* C11 (as claimed): when a receipt upload that received a file has finished, the
\* uploaded image is on disk exactly when a transaction referencing it was
\* persisted; after a failure (the AI parser threw, no total amount, the save
\* failed) the image is gone.
C11_ImageKeptIffTransaction ==
    (upc = "finished" /\ reqFile) => (fileExists <=> stored # {})

-----------------------------------------------------------------------------
(* Vocabulary of the properties of the upload handlers *)

\* The stage of the request an entry of the trace belongs to.
Stage(e) ==
    IF e \in {"extractText", "extractText short", "extractText throws"} THEN 1
    ELSE IF e \in {"parseWithAI", "parseWithAI throws"} THEN 2
    ELSE IF e \in {"insertMany", "save"} THEN 3
    ELSE 4

Called(e) == \E i \in 1..Len(trace) : trace[i] = e

Responses == {i \in 1..Len(trace) : trace[i] = "response"}

\* C12: a statement upload calls extractText, parseWithAI and insertMany at most once
\* each and in that order, and answers last; parseWithAI is called only after
\* extractText returned enough text, insertMany only after parseWithAI returned; no
\* response is sent before the handler is through, and a finished request has sent
\* exactly one, a success (200) or a failure (400, 500).
C12_StagesInOrder ==
    /\ \A i, j \in 1..Len(trace) : i < j => Stage(trace[i]) < Stage(trace[j])
    /\ (Called("parseWithAI") \/ Called("parseWithAI throws")) => trace[1] = "extractText"
    /\ Called("insertMany") => Called("parseWithAI")
    /\ upc \in {"received", "parsing", "persisting", "responding", "catch"} => Responses = {}
    /\ upc \in {"finally", "finished"} =>
          /\ Cardinality(Responses) = 1
          /\ response.status \in {200, 400, 500}
          /\ response.status = 200 <=> (Called("parseWithAI") /\ thrown = "none")

\* a request that went through every stage and succeeded
C12_Witness ==
    /\ upc = "finished"
    /\ trace = <<"extractText", "parseWithAI", "insertMany", "response">>
    /\ response.status = 200
    /\ stored # {}

-----------------------------------------------------------------------------
\* The statement reply the delegate is asked for: an array whose elements have a
\* date, a description, a numeric amount and a type.
StatementSchemaOk(v) ==
    /\ v.kind = "array"
    /\ \A i \in 1..Len(v.items) :
          /\ v.items[i].missing = {}
          /\ v.items[i].amount.kind = "number"
          /\ v.items[i].type \in {"income", "expense"}

\* C13 (as claimed), for the statement parser: a reply wrapped in a json fence is
\* parsed as its JSON; a reply that is not JSON, or whose JSON is not an array of
\* {date, description, amount, type}, ends in a failure response with nothing
\* persisted.
C13_MalformedReplyRejected ==
    (upc = "finished" /\ reply # NoReply) =>
        /\ (reply[1] = FenceJson /\ reply[Len(DropWhiteSpaceRight(reply))] = Fence
              /\ StatementSchemaOk(reply[3].json)) => Called("parseWithAI")
        /\ ~StatementSchemaOk(JSONParse(StripFence(reply))) =>
              /\ response.status # 200
              /\ stored = {}

-----------------------------------------------------------------------------
\* C14: a statement upload whose parse returned zero candidates never calls
\* insertMany and answers 200 with totalTransactions = 0, insertedTransactions = 0
\* and skippedTransactions = 0; nothing is thrown and nothing is stored.
C14_ZeroCandidatesIsSuccess ==
    (Called("parseWithAI") /\ candidates = <<>>) =>
        /\ ~Called("insertMany")
        /\ thrown = "none"
        /\ stored = {}
        /\ upc \in {"persisting", "responding", "finally", "finished"}
        /\ upc \in {"finally", "finished"} =>
              response = [status |-> 200, total |-> 0, inserted |-> 0, skipped |-> 0]

\* the delegate replied "[]" in a json fence, and the request has finished
C14_Witness ==
    /\ upc = "finished"
    /\ reply = <<FenceJson, WhiteSpace, JsonText(JsonArray(<<>>)), WhiteSpace, Fence>>
    /\ candidates = <<>>
    /\ response.status = 200
    /\ response.total = 0

-----------------------------------------------------------------------------
\* C15 (as claimed): when an upload has finished, every transaction it stored has a
\* Category record with its category name, its type and its user.
C15_CategoryRecordExists ==
    upc = "finished" =>
        \A i \in stored :
            [name |-> candidates[i].category, type |-> candidates[i].type,
             userId |-> candidates[i].userId] \in categories

-----------------------------------------------------------------------------
\* C16: every candidate a statement parser returns carries the user id the caller
\* passed in, also when the delegate's reply names another owner; the category of
\* a candidate the AI parser returns is categorizeTransaction(description,
\* type = "expense").
C16_OwnerIsCaller ==
    /\ pc = "done" => \A i \in 1..Len(transactions) : transactions[i].user_id = userId
    /\ upc = "persisting" =>
          \A i \in 1..Len(candidates) :
              /\ candidates[i].userId = userId
              /\ candidates[i].category =
                    categorizeTransaction(candidates[i].description,
                                          candidates[i].type = "expense")

\* the AI parser returned a candidate for a reply element that names another owner
C16_Witness ==
    /\ upc = "persisting"
    /\ JSONParse(StripFence(reply)).items = <<ItemCoffee>>
    /\ ItemCoffee.owner = ForeignUser
    /\ ForeignUser # userId
    /\ Len(candidates) = 1
    /\ candidates[1].userId = userId
    /\ candidates[1].category = "Other Expenses"

-----------------------------------------------------------------------------
\* A candidate with a numeric amount above zero and a date of the calendar.
WellFormedCandidate(c) ==
    /\ c.amount.kind = "number"
    /\ c.amount.val > 0
    /\ c.date # InvalidDate

\* C17 (as claimed), for the AI statement path: once insertMany has been called,
\* every candidate handed to it has a numeric amount above zero and a valid date,
\* and none carries the current date in place of its own.
C17_InvalidCandidateDropped ==
    Called("insertMany") =>
        \A i \in 1..Len(candidates) :
            /\ WellFormedCandidate(candidates[i])
            /\ candidates[i].date # Today

-----------------------------------------------------------------------------
\* The labels of the rules in the order the claim gives.
ClaimedRuleOrder ==
    <<"Salary", "Investment", "Food & Dining", "Food & Dining", "Transportation",
      "Shopping", "Entertainment", "Bills & Utilities", "Healthcare", "Travel">>

\* The label of the first rule, in that order, whose test the lower-cased
\* description passes; the default for its type when none does.
FirstRuleLabel(description, isExpense) ==
    LET lowerDesc == ToLowerCase(description)
        hits == {k \in 1..Len(ClaimedRuleOrder) : RuleTest(lowerDesc, CategoryRules[k])}
    IN IF hits = {} THEN (IF isExpense THEN "Other Expenses" ELSE "Other Income")
       ELSE ClaimedRuleOrder[CHOOSE k \in hits : \A q \in hits : k <= q]

\* C18: the rules stand in the order Salary, Investment, Food & Dining (food),
\* Food & Dining (grocery), Transportation, Shopping, Entertainment, Bills &
\* Utilities, Healthcare, Travel, and every category the categorizer assigned to a
\* returned candidate is the label of the first rule matching the lower-cased description,
\* or "Other Expenses" / "Other Income" by isExpense when no rule matches.
C18_FirstMatchingRule ==
    /\ [k \in 1..Len(CategoryRules) |-> CategoryRules[k].label] = ClaimedRuleOrder
    /\ upc = "persisting" =>
          \A i \in 1..Len(candidates) :
              candidates[i].category =
                  FirstRuleLabel(candidates[i].description, candidates[i].type = "expense")

\* "UPI FOOD" passes the tests of the food rule and of the shopping rule, and
\* "random noise" passes none
C18_Witness ==
    /\ upc = "persisting"
    /\ Len(candidates) = 2
    /\ candidates[1].description = ItemUpiFood.description
    /\ RuleTest(ToLowerCase(candidates[1].description), CategoryRules[3])
    /\ RuleTest(ToLowerCase(candidates[1].description), CategoryRules[6])
    /\ candidates[1].category = "Food & Dining"
    /\ candidates[2].description = ItemNoise.description
    /\ candidates[2].category = "Other Expenses"

-----------------------------------------------------------------------------
\* C19 (as claimed): the categorizer gives "Salary" to the income "Monthly Salary
\* Payment", "Food & Dining" to the expense "STARBUCKS COFFEE" and "Other Expenses"
\* to the expense "random noise".
C19_CategorizerExamples ==
    \A i \in 1..Len(candidates) :
        /\ (candidates[i].description = ItemSalary.description /\ candidates[i].type = "income")
              => candidates[i].category = "Salary"
        /\ (candidates[i].description = ItemCoffee.description /\ candidates[i].type = "expense")
              => candidates[i].category = "Food & Dining"
        /\ (candidates[i].description = ItemNoise.description /\ candidates[i].type = "expense")
              => candidates[i].category = "Other Expenses"

-----------------------------------------------------------------------------
\* The number a claimed pattern finds in the text: the capture of the leftmost
\* match of "total", "amount" or "due" (patterns 1 to 3), or the digits after the
\* first currency symbol (pattern 4); <<>> for no match.
ClaimedCapture(s, p) ==
    IF p \in 1..3 THEN MatchedText(s, amountPatterns[p])
    ELSE LET at == {i \in 1..Len(s) : CurrencyAt(s, i)}
         IN IF at = {} THEN <<>>
            ELSE SubSeq(s, Least(at) + 1, NumberEnd(s, Least(at) + 1) - 1)

ClaimedAccepted(s) ==
    {p \in 1..4 :
        /\ ClaimedCapture(s, p) # <<>>
        /\ ParseFloat(ClaimedCapture(s, p)).val > 0
        /\ ParseFloat(ClaimedCapture(s, p)).val < AmountLimit}

\* C20 (as claimed): parseReceipt returns no amount outside (0, 10000); the amount
\* is the value of the first of the patterns total, amount, due, bare currency
\* symbol whose match lies in (0, 10000), and null when none does.
C20_AmountFromOrderedPatterns ==
    opc = "done" =>
        /\ result.amount.kind = "number" =>
              (result.amount.val > 0 /\ result.amount.val < AmountLimit)
        /\ result.amount =
              IF ClaimedAccepted(ocrText) = {} THEN NoResult.amount
              ELSE [kind |-> "number",
                    val |-> ParseFloat(ClaimedCapture(ocrText, Least(ClaimedAccepted(ocrText)))).val]

-----------------------------------------------------------------------------
\* C25 (as claimed): every candidate parseTransactionStatement returns has the
\* category categorizeTransaction(final description, type = "expense"); none keeps
\* the placeholder "Uncategorized".
C25_EveryCandidateCategorized ==
    pc = "done" =>
        \A t \in TxIndexes :
            /\ transactions[t].category # "Uncategorized"
            /\ transactions[t].category =
                  categorizeTransaction(transactions[t].description,
                                        transactions[t].type = "expense")

-----------------------------------------------------------------------------
\* The nearest anchor-matching line before line j (0: none).
PrecedingAnchor(j) ==
    LET before == {k \in 1..(j - 1) : anchorMatch(lines[k])}
    IN IF before = {} THEN 0 ELSE CHOOSE k \in before : \A q \in before : q <= k

\* C26 (as claimed): every line appended to a transaction's description follows the
\* anchor line that opened this transaction with no other anchor-matching line in
\* between.
C26_AppendedToNearestAnchor ==
    \A t \in TxIndexes :
        \A n \in 2..Len(transactions[t].src) :
            PrecedingAnchor(transactions[t].src[n]) = transactions[t].src[1]


-----------------------------------------------------------------------------
(* render_page, the page renderer PDFService.extractText hands to pdf-parse *)
(* (backend/services/aiReceiptParser.js, lines 73-92)                       *)
-----------------------------------------------------------------------------

\* Most text fragments on one page.
MaxItems == 4

\* item.transform[5] of the fragments: the bottom of the page and two lines above it.
Offsets == {0, 10, 20}

PageContents == UNION {[1..n -> Offsets] : n \in 1..MaxItems}

\* !lastY: undefined and 0 are both falsy.
NotLastY(v) == ~v.defined \/ v.y = 0

\* lastY == item.transform[5]: undefined equals no number.
LooseEqual(v, y) == v.defined /\ v.y = y

\* What line 82 or line 85 appends for an item: item.str, after a newline or not.
Piece(k, newline) == [newline |-> newline, item |-> k]

\* lines 76-79: getTextContent resolves; lastY is undefined and text is ''
PageInit ==
    /\ IdleParser
    /\ IdleUpload
    /\ IdleOCR
    /\ IdleServer
    /\ IdleRoutes
    /\ pageItems \in PageContents
    /\ itemIdx = 1
    /\ lastY = NoY
    /\ pageText = <<>>

\* lines 80-88: one iteration of the for-loop
RenderItem ==
    /\ itemIdx \in 1..Len(pageItems)
    /\ LET y == pageItems[itemIdx]
       IN /\ pageText' = IF LooseEqual(lastY, y) \/ NotLastY(lastY)
                         THEN Append(pageText, Piece(itemIdx, FALSE))
                         ELSE Append(pageText, Piece(itemIdx, TRUE))
          /\ lastY' = [defined |-> TRUE, y |-> y]
    /\ itemIdx' = itemIdx + 1
    /\ UNCHANGED pageItems
    /\ UNCHANGED <<parserVars, uploadVars, ocrVars, serverVars, routeVars>>

PageNext == RenderItem

PageSpec == PageInit /\ [][PageNext]_vars

\* C22 (as claimed): two consecutive fragments are on the same output line exactly
\* when their vertical offsets are equal, and a newline separates them whenever the
\* offset changes, for every sequence of offsets including an offset of 0.
C22_NewlineIffOffsetChanges ==
    \A k \in 2..Len(pageText) :
        pageText[k].newline <=> (pageItems[k] # pageItems[k - 1])


-----------------------------------------------------------------------------
(* Start-up of the server (backend/server.js), the initialization of the two *)
(* AI parser modules, and authenticateToken (backend/middleware/auth.js) in  *)
(* front of the upload and transaction routers.  The handlers themselves are *)
(* the actions of UploadSpec, ReceiptSpec and RoutesSpec; here a handler is  *)
(* one step that is recorded in `ran`.                                       *)
-----------------------------------------------------------------------------

\* The tokens a client may present: one that does not verify against JWT_SECRET, and
\* the tokens generateToken signed for u1 and u2, within or past their seven days.
Tokens == {"garbage", "u1 token", "u1 token expired", "u2 token", "u2 token expired"}

\* jwt.verify(token, process.env.JWT_SECRET): the decoded payload, or the error thrown
Verify(token) ==
    CASE token = "garbage" -> [error |-> "JsonWebTokenError", userId |-> NULL]
      [] token = "u1 token" -> [error |-> "none", userId |-> "u1"]
      [] token = "u1 token expired" -> [error |-> "TokenExpiredError", userId |-> NULL]
      [] token = "u2 token" -> [error |-> "none", userId |-> "u2"]
      [] token = "u2 token expired" -> [error |-> "TokenExpiredError", userId |-> NULL]

\* req.headers['authorization'], by its space-separated words; <<>> is no header
Headers == {<<>>, <<"Bearer">>} \cup {<<"Bearer", t>> : t \in Tokens}

\* authHeader && authHeader.split(' ')[1]
BearerToken(authHeader) ==
    IF authHeader = <<>> THEN NULL
    ELSE IF Len(authHeader) < 2 THEN NULL
    ELSE authHeader[2]

\* User.findById(decoded.userId)
FindUser(uid, accts) == IF uid \in accts THEN uid ELSE NULL

\* optionalAuth's treatment of a token whose user is gone, in authenticateToken's place:
\* the request goes on.
AuthenticateLenient(authHeader, accts) ==
    LET token == BearerToken(authHeader)
    IN IF token = NULL THEN [status |-> 401, user |-> NULL]
       ELSE IF Verify(token).error # "none" THEN [status |-> 401, user |-> NULL]
       ELSE [status |-> 0, user |-> FindUser(Verify(token).userId, accts)]

\* authenticateToken: the status it answers with, or 0 and req.user when it calls next()
Authenticate(authHeader, accts) ==
    LET token == BearerToken(authHeader)
    IN IF token = NULL THEN [status |-> 401, user |-> NULL]
       ELSE IF Verify(token).error = "JsonWebTokenError" THEN [status |-> 401, user |-> NULL]
       ELSE IF Verify(token).error = "TokenExpiredError" THEN [status |-> 401, user |-> NULL]
       ELSE IF FindUser(Verify(token).userId, accts) = NULL THEN [status |-> 401, user |-> NULL]
       ELSE [status |-> 0, user |-> FindUser(Verify(token).userId, accts)]

\* The routes of the two routers, as server.js mounts them.
UploadRoutes == {"POST /api/upload/receipt", "POST /api/upload/statement"}

TransactionRoutes ==
    {"GET /api/transactions", "GET /api/transactions/:id", "POST /api/transactions",
     "PUT /api/transactions/:id", "DELETE /api/transactions/:id",
     "POST /api/transactions/bulk"}

Requests ==
    {[route |-> r, authorization |-> h, file |-> f] :
        r \in UploadRoutes, h \in Headers, f \in BOOLEAN}
    \cup
    {[route |-> r, authorization |-> h, file |-> FALSE] :
        r \in TransactionRoutes, h \in Headers}

\* server.js line 4: dotenv has filled process.env; u2's account may have been deleted
\* after its tokens were issued.
ServerInit ==
    /\ IdleParser
    /\ IdleUpload
    /\ IdleOCR
    /\ IdlePage
    /\ IdleRoutes
    /\ apiKey \in BOOLEAN
    /\ boot = "starting"
    /\ loaded = {}
    /\ accounts \in {{"u1", "u2"}, {"u1"}}
    /\ request = NoRequest
    /\ spc = "idle"
    /\ reqUser = NULL
    /\ answer = 0
    /\ ran = <<>>

\* upload.js line 9 requires aiStatementParser.js, whose lines 3-5 build the client
\* from process.env.GEMINI_API_KEY without looking at it.
LoadStatementParser ==
    /\ boot = "starting"
    /\ "aiStatementParser" \notin loaded
    /\ loaded' = loaded \cup {"aiStatementParser"}
    /\ UNCHANGED <<apiKey, boot, accounts, request, spc, reqUser, answer, ran>>
    /\ UNCHANGED <<parserVars, uploadVars, ocrVars, pageVars, routeVars>>

\* upload.js line 10 requires aiReceiptParser.js, whose lines 5-8 throw when the key
\* is missing: the require chain of server.js fails and the process ends.
LoadReceiptParser ==
    /\ boot = "starting"
    /\ "aiStatementParser" \in loaded
    /\ "aiReceiptParser" \notin loaded
    /\ IF apiKey
       THEN /\ loaded' = loaded \cup {"aiReceiptParser"}
            /\ boot' = boot
       ELSE /\ loaded' = loaded
            /\ boot' = "crashed"
    /\ UNCHANGED <<apiKey, accounts, request, spc, reqUser, answer, ran>>
    /\ UNCHANGED <<parserVars, uploadVars, ocrVars, pageVars, routeVars>>

\* server.js lines 24-47: the routers are mounted and the server listens
Listen ==
    /\ boot = "starting"
    /\ loaded = {"aiStatementParser", "aiReceiptParser"}
    /\ boot' = "listening"
    /\ UNCHANGED <<apiKey, loaded, accounts, request, spc, reqUser, answer, ran>>
    /\ UNCHANGED <<parserVars, uploadVars, ocrVars, pageVars, routeVars>>

\* A request reaches one of the two routers; router.use(authenticateToken) is first.
Receive ==
    /\ boot = "listening"
    /\ spc \in {"idle", "answered"}
    /\ \E r \in Requests : request' = r
    /\ spc' = "authenticateToken"
    /\ reqUser' = NULL
    /\ answer' = 0
    /\ ran' = <<>>
    /\ UNCHANGED <<apiKey, boot, loaded, accounts>>
    /\ UNCHANGED <<parserVars, uploadVars, ocrVars, pageVars, routeVars>>

\* auth.js lines 4-49
AuthenticateToken ==
    /\ spc = "authenticateToken"
    /\ LET out == Authenticate(request.authorization, accounts)
       IN IF out.status = 0
          THEN /\ reqUser' = out.user
               /\ answer' = answer
               /\ spc' = IF request.route \in UploadRoutes THEN "multer" ELSE "handler"
          ELSE /\ reqUser' = reqUser
               /\ answer' = out.status
               /\ spc' = "answered"
    /\ ran' = Append(ran, "authenticateToken")
    /\ UNCHANGED <<apiKey, boot, loaded, accounts, request>>
    /\ UNCHANGED <<parserVars, uploadVars, ocrVars, pageVars, routeVars>>

\* upload.js lines 70 and 123: uploadReceipt.single('file') and
\* uploadStatement.single('file') write the request's file to the uploads directory
Multer ==
    /\ spc = "multer"
    /\ ran' = IF request.file THEN Append(ran, "file stored") ELSE ran
    /\ spc' = "handler"
    /\ UNCHANGED <<apiKey, boot, loaded, accounts, request, reqUser, answer>>
    /\ UNCHANGED <<parserVars, uploadVars, ocrVars, pageVars, routeVars>>

\* The route's handler runs and answers.  An upload handler that has a file may hand
\* it to the delegate (upload.js lines 83 and 136).
Handler ==
    /\ spc = "handler"
    /\ \E delegated \in BOOLEAN :
          /\ delegated => (request.route \in UploadRoutes /\ request.file)
          /\ ran' = IF delegated THEN ran \o <<"handler", "parseWithAI">>
                    ELSE Append(ran, "handler")
    /\ \E s \in {200, 400, 500} : answer' = s
    /\ spc' = "answered"
    /\ UNCHANGED <<apiKey, boot, loaded, accounts, request, reqUser>>
    /\ UNCHANGED <<parserVars, uploadVars, ocrVars, pageVars, routeVars>>

ServerNext ==
    \/ LoadStatementParser
    \/ LoadReceiptParser
    \/ Listen
    \/ Receive
    \/ AuthenticateToken
    \/ Multer
    \/ Handler

ServerSpec == ServerInit /\ [][ServerNext]_vars

\* C21 (as claimed): with GEMINI_API_KEY absent neither AI parser module completes
\* its initialization, the server never listens and no request reaches parseWithAI.
C21_MissingKeyFatalAtInitialization ==
    ~apiKey =>
        /\ loaded = {}
        /\ boot # "listening"
        /\ \A k \in 1..Len(ran) : ran[k] # "parseWithAI"

\* The request's token verifies and its user exists.
Authentic ==
    /\ BearerToken(request.authorization) # NULL
    /\ Verify(BearerToken(request.authorization)).error = "none"
    /\ Verify(BearerToken(request.authorization)).userId \in accounts

-----------------------------------------------------------------------------
\* The delegate's total is null, zero or missing (the reply has no such property).
NoTotal(data) ==
    \/ "totalAmount" \in data.missing
    \/ data.totalAmount.kind \in {"null", "undefined"}
    \/ (data.totalAmount.kind = "number" /\ data.totalAmount.val = 0)

\* C29: a receipt upload persists at most one transaction, and only after the AI
\* parser returned with a truthy totalAmount; the persisted transaction has type
\* 'expense', the requester as userId and receiptUrl '/uploads/<stored filename>'.
\* When the parser returned and totalAmount is null, zero or missing, the response is
\* 400 and no transaction is saved.
C29_ReceiptPersistsAtMostOne ==
    /\ Cardinality(stored) <= 1
    /\ stored # {} =>
          /\ Called("parseWithAI")
          /\ ~NoTotal(ReceiptParsedData(reply))
          /\ Len(candidates) = 1
          /\ stored = {1}
          /\ candidates[1].type = "expense"
          /\ candidates[1].userId = userId
          /\ candidates[1].receiptUrl = "/uploads/file"
    /\ (upc = "finished" /\ Called("parseWithAI") /\ NoTotal(ReceiptParsedData(reply))) =>
          /\ response.status = 400
          /\ stored = {}
          /\ ~Called("save")

\* A receipt whose total is zero has been answered 400.
C29_Witness ==
    /\ upc = "finished"
    /\ Called("parseWithAI")
    /\ ReceiptParsedData(reply) = ReceiptZeroTotal
    /\ response.status = 400
    /\ stored = {}


-----------------------------------------------------------------------------
(* The transaction routes (backend/routes/transactions.js) behind            *)
(* authenticateToken: req.user is the authenticated requester.  Requests are *)
(* handled concurrently; a handler runs from one await to the next without   *)
(* interruption, so a step is one store operation together with the code     *)
(* that follows it up to the next store operation.  Request bodies pass the  *)
(* validators of middleware/validation.js; a document is kept by its _id,    *)
(* userId, type and category.                                                *)
-----------------------------------------------------------------------------

\* Most Transaction documents ever created.
MaxDocuments == 2

\* Most requests handled at the same time.
MaxInFlight == 2

\* Most requests received.
MaxRequests == 3

\* Most elements of the transactions array of a bulk request.
MaxBulk == 2

RouteUsers == {"u1", "u2"}

\* A category name that is not among the default categories.
CategoryNames == {"Pets"}

\* A property the request body does not have.
Absent == "undefined"

\* req.path within the router: "/", "/summary", "/categories", "/bulk" or "/<_id>"
Root == [seg |-> "none", id |-> 0]
Word(w) == [seg |-> w, id |-> 0]
IdPath(n) == [seg |-> "id", id |-> n]

\* The routes in the order transactions.js registers them (lines 23, 69, 98, 148,
\* 211, 242, 264, 299).
Routes ==
    <<[method |-> "GET", pattern |-> "/", name |-> "GET /"],
      [method |-> "GET", pattern |-> "/:id", name |-> "GET /:id"],
      [method |-> "POST", pattern |-> "/", name |-> "POST /"],
      [method |-> "PUT", pattern |-> "/:id", name |-> "PUT /:id"],
      [method |-> "DELETE", pattern |-> "/:id", name |-> "DELETE /:id"],
      [method |-> "GET", pattern |-> "/summary", name |-> "GET /summary"],
      [method |-> "GET", pattern |-> "/categories", name |-> "GET /categories"],
      [method |-> "POST", pattern |-> "/bulk", name |-> "POST /bulk"]>>

\* Express's match of a route path: "/" is the router's root alone, "/:id" is any one
\* segment, a literal is itself.
Matches(pattern, path) ==
    CASE pattern = "/" -> path.seg = "none"
      [] pattern = "/:id" -> path.seg # "none"
      [] pattern = "/summary" -> path.seg = "summary"
      [] pattern = "/categories" -> path.seg = "categories"
      [] pattern = "/bulk" -> path.seg = "bulk"

\* The route whose middleware and handler get the request: the first registered one
\* that matches.  None of the handlers calls next(), so no later route sees it.
Dispatch(method, path) ==
    LET hits == {i \in 1..Len(Routes) :
                    Routes[i].method = method /\ Matches(Routes[i].pattern, path)}
    IN IF hits = {} THEN "none"
       ELSE Routes[CHOOSE i \in hits : \A j \in hits : i <= j].name

\* validateTransactionId: param('id').isMongoId()
IsMongoId(path) == path.seg = "id"

CategoryKey(name, type, uid) == [name |-> name, type |-> type, userId |-> uid]

NoBody == [type |-> Absent, category |-> Absent, transactions |-> <<>>]

NoCall == [method |-> "none", path |-> Root, user |-> NULL, body |-> NoBody]

\* A slot no request occupies.
Free ==
    [req |-> NoCall, at |-> "free", k |-> 0, validTransactions |-> <<>>,
     missed |-> {}, status |-> 0, handler |-> "none", returned |-> {}]

\* A Category.findOne of the slot's request has answered: `missed` keeps the keys it
\* did not find.
Looked(slot, key, categoryExists) ==
    IF categoryExists THEN slot ELSE [slot EXCEPT !.missed = @ \cup {key}]

\* The request of a slot has been answered by `handler` with `status`; `returned` are
\* the documents the response carries or the operation changed or removed.
Done(slot, handler, status, returned) ==
    [slot EXCEPT !.at = "done", !.handler = handler, !.status = status,
                 !.returned = returned]

Slots == 1..MaxInFlight

\* A request takes the first slot that handles none.
Available(s) ==
    /\ inflight[s].at \in {"free", "done"}
    /\ \A q \in 1..(s - 1) : inflight[q].at \notin {"free", "done"}
    /\ issued < MaxRequests

Arrived(req) == [Free EXCEPT !.req = req]

\* Two registered users with their default categories and no transactions.
RoutesInit ==
    /\ IdleParser
    /\ IdleOCR
    /\ IdleServer
    /\ IdlePage
    /\ upc = "idle"
    /\ reqFile = FALSE
    /\ fileExists = FALSE
    /\ reply = <<>>
    /\ candidates = <<>>
    /\ rows = <<>>
    /\ stored = {}
    /\ categories = DefaultCategories("u1") \cup DefaultCategories("u2")
    /\ insertedCount = 0
    /\ thrown = "none"
    /\ response = NoResponse
    /\ trace = <<>>
    /\ documents = {}
    /\ created = 0
    /\ inflight = [s \in Slots |-> Free]
    /\ issued = 0

\* Transaction.findOne / findOneAndUpdate / findOneAndDelete ({_id, userId})
OwnDocument(id, uid) == {d \in documents : d.id = id /\ d.userId = uid}

\* GET requests: the list (lines 23-62), one transaction (lines 69-91), the summary
\* (lines 242-257) and the categories (lines 264-292).  Each handler has one await.
Get ==
    \E s \in Slots, u \in RouteUsers,
       p \in {Root, Word("summary"), Word("categories")} \cup {IdPath(n) : n \in 1..MaxDocuments} :
        /\ Available(s)
        /\ LET slot == Arrived([method |-> "GET", path |-> p, user |-> u, body |-> NoBody])
               h == Dispatch("GET", p)
               own == {d \in documents : d.userId = u}
           IN inflight' = [inflight EXCEPT ![s] =
                  CASE h = "GET /" -> Done(slot, h, 200, own)
                    [] h = "GET /:id" ->
                          IF ~IsMongoId(p) THEN Done(slot, h, 400, {})
                          ELSE IF OwnDocument(p.id, u) = {} THEN Done(slot, h, 404, {})
                          ELSE Done(slot, h, 200, OwnDocument(p.id, u))
                    [] h = "GET /summary" -> Done(slot, h, 200, own)
                    [] h = "GET /categories" -> Done(slot, h, 200, {})]
        /\ issued' = issued + 1
        /\ UNCHANGED <<documents, created, categories>>
        /\ UNCHANGED <<parserVars, uploadRest, ocrVars, serverVars, pageVars>>

\* DELETE /:id (lines 211-235)
Delete ==
    \E s \in Slots, u \in RouteUsers, n \in 1..MaxDocuments :
        /\ Available(s)
        /\ Dispatch("DELETE", IdPath(n)) = "DELETE /:id"
        /\ IsMongoId(IdPath(n))
        /\ LET slot == Arrived([method |-> "DELETE", path |-> IdPath(n), user |-> u,
                                body |-> NoBody])
           IN IF OwnDocument(n, u) = {}
              THEN /\ inflight' = [inflight EXCEPT ![s] = Done(slot, "DELETE /:id", 404, {})]
                   /\ documents' = documents
              ELSE /\ inflight' = [inflight EXCEPT ![s] =
                                      Done(slot, "DELETE /:id", 200, OwnDocument(n, u))]
                   /\ documents' = documents \ OwnDocument(n, u)
        /\ issued' = issued + 1
        /\ UNCHANGED <<created, categories>>
        /\ UNCHANGED <<parserVars, uploadRest, ocrVars, serverVars, pageVars>>

\* POST / (lines 98-107): the request arrives and Category.findOne answers.
Post ==
    \E s \in Slots, u \in RouteUsers, type \in {"income", "expense"}, category \in CategoryNames :
        /\ Available(s)
        /\ Dispatch("POST", Root) = "POST /"
        /\ LET slot == Arrived([method |-> "POST", path |-> Root, user |-> u,
                                body |-> [type |-> type, category |-> category,
                                          transactions |-> <<>>]])
               categoryExists == CategoryKey(category, type, u) \in categories
           IN inflight' = [inflight EXCEPT ![s] =
                  [Looked(slot, CategoryKey(category, type, u), categoryExists)
                      EXCEPT !.at = IF categoryExists THEN "save" ELSE "create"]]
        /\ issued' = issued + 1
        /\ UNCHANGED <<documents, created, categories>>
        /\ UNCHANGED <<parserVars, uploadRest, ocrVars, serverVars, pageVars>>

\* POST / (lines 109-116, 134-140): Category.create; the unique index on (userId,
\* name, type) rejects a second record, and the catch answers 500.
PostCreateCategory ==
    \E s \in Slots :
        /\ inflight[s].req.method = "POST"
        /\ inflight[s].req.path = Root
        /\ inflight[s].at = "create"
        /\ LET req == inflight[s].req
               key == CategoryKey(req.body.category, req.body.type, req.user)
           IN IF key \in categories
              THEN /\ inflight' = [inflight EXCEPT ![s] = Done(@, "POST /", 500, {})]
                   /\ categories' = categories
              ELSE /\ inflight' = [inflight EXCEPT ![s].at = "save"]
                   /\ categories' = categories \cup {key}
        /\ UNCHANGED <<documents, created, issued>>
        /\ UNCHANGED <<parserVars, uploadRest, ocrVars, serverVars, pageVars>>

\* POST / (lines 118-133): transaction.save() and the 201 response
PostSave ==
    \E s \in Slots :
        /\ inflight[s].req.method = "POST"
        /\ inflight[s].req.path = Root
        /\ inflight[s].at = "save"
        /\ created < MaxDocuments
        /\ LET req == inflight[s].req
               doc == [id |-> created + 1, userId |-> req.user, type |-> req.body.type,
                       category |-> req.body.category]
           IN /\ documents' = documents \cup {doc}
              /\ inflight' = [inflight EXCEPT ![s] = Done(@, "POST /", 201, {doc})]
        /\ created' = created + 1
        /\ UNCHANGED <<categories, issued>>
        /\ UNCHANGED <<parserVars, uploadRest, ocrVars, serverVars, pageVars>>

\* type || 'expense'
TypeOrExpense(type) == IF type = Absent THEN "expense" ELSE type

\* lines 150-158 and 177-196: findOneAndUpdate({_id, userId}, updates) and the response
Updated(slot) ==
    LET req == slot.req
        found == OwnDocument(req.path.id, req.user)
        new == {[d EXCEPT !.type = IF req.body.type = Absent THEN @ ELSE req.body.type,
                          !.category = IF req.body.category = Absent THEN @
                                       ELSE req.body.category] : d \in found}
    IN [documents |-> (documents \ found) \cup new,
        slot |-> IF found = {} THEN Done(slot, "PUT /:id", 404, {})
                 ELSE Done(slot, "PUT /:id", 200, new)]

\* PUT /:id (lines 148-166): the request arrives; with a category, Category.findOne
\* answers; without one, findOneAndUpdate is the first operation.
Put ==
    \E s \in Slots, u \in RouteUsers, n \in 1..MaxDocuments,
       type \in {Absent, "income", "expense"}, category \in {Absent} \cup CategoryNames :
        /\ Available(s)
        /\ Dispatch("PUT", IdPath(n)) = "PUT /:id"
        /\ IsMongoId(IdPath(n))
        /\ LET slot == Arrived([method |-> "PUT", path |-> IdPath(n), user |-> u,
                                body |-> [type |-> type, category |-> category,
                                          transactions |-> <<>>]])
               categoryExists == CategoryKey(category, TypeOrExpense(type), u) \in categories
           IN IF category = Absent
              THEN /\ inflight' = [inflight EXCEPT ![s] = Updated(slot).slot]
                   /\ documents' = Updated(slot).documents
              ELSE /\ inflight' = [inflight EXCEPT ![s] =
                          [Looked(slot, CategoryKey(category, TypeOrExpense(type), u),
                                  categoryExists)
                              EXCEPT !.at = IF categoryExists THEN "findOneAndUpdate"
                                            ELSE "create"]]
                   /\ documents' = documents
        /\ issued' = issued + 1
        /\ UNCHANGED <<created, categories>>
        /\ UNCHANGED <<parserVars, uploadRest, ocrVars, serverVars, pageVars>>

\* PUT /:id (lines 168-174, 197-203): Category.create, or the catch's 500
PutCreateCategory ==
    \E s \in Slots :
        /\ inflight[s].req.method = "PUT"
        /\ inflight[s].at = "create"
        /\ LET req == inflight[s].req
               key == CategoryKey(req.body.category, TypeOrExpense(req.body.type), req.user)
           IN IF key \in categories
              THEN /\ inflight' = [inflight EXCEPT ![s] = Done(@, "PUT /:id", 500, {})]
                   /\ categories' = categories
              ELSE /\ inflight' = [inflight EXCEPT ![s].at = "findOneAndUpdate"]
                   /\ categories' = categories \cup {key}
        /\ UNCHANGED <<documents, created, issued>>
        /\ UNCHANGED <<parserVars, uploadRest, ocrVars, serverVars, pageVars>>

\* PUT /:id (lines 177-196)
PutUpdate ==
    \E s \in Slots :
        /\ inflight[s].req.method = "PUT"
        /\ inflight[s].at = "findOneAndUpdate"
        /\ inflight' = [inflight EXCEPT ![s] = Updated(inflight[s]).slot]
        /\ documents' = Updated(inflight[s]).documents
        /\ UNCHANGED <<created, categories, issued>>
        /\ UNCHANGED <<parserVars, uploadRest, ocrVars, serverVars, pageVars>>

\* The elements of a bulk request's array: a complete one, and one without an amount.
BulkItems ==
    {[type |-> "expense", category |-> "Pets", amount |-> TRUE],
     [type |-> "expense", category |-> "Pets", amount |-> FALSE]}

BulkBodies == UNION {[1..n -> BulkItems] : n \in 0..MaxBulk}

\* line 315: !amount || !type || !category || !date
Skipped(item) == ~item.amount

\* The next element from k on that line 315 does not skip (past the end: none).
NextKept(items, k) ==
    LET kept == {i \in k..Len(items) : ~Skipped(items[i])}
    IN IF kept = {} THEN Len(items) + 1 ELSE CHOOSE i \in kept : \A j \in kept : i <= j

\* lines 312-350 from element k on: the loop runs to the next Category.findOne, whose
\* answer sends it to Category.create or on to the next element; past the last element
\* validTransactions is empty (400) or goes to insertMany.
BulkLoop(slot, k) ==
    LET items == slot.req.body.transactions
        j == NextKept(items, k)
    IN IF j > Len(items)
       THEN IF slot.validTransactions = <<>> THEN Done(slot, "POST /bulk", 400, {})
            ELSE [slot EXCEPT !.at = "insertMany", !.k = j]
       ELSE [slot EXCEPT !.at = "findOne", !.k = j]

\* lines 334-342: validTransactions.push
Pushed(slot) ==
    [slot EXCEPT !.validTransactions =
        Append(@, [type |-> slot.req.body.transactions[slot.k].type,
                   category |-> slot.req.body.transactions[slot.k].category])]

\* POST /bulk (lines 299-317): the request arrives; an empty array is answered 400
Bulk ==
    \E s \in Slots, u \in RouteUsers, items \in BulkBodies :
        /\ Available(s)
        /\ Dispatch("POST", Word("bulk")) = "POST /bulk"
        /\ LET slot == Arrived([method |-> "POST", path |-> Word("bulk"), user |-> u,
                                body |-> [type |-> Absent, category |-> Absent,
                                          transactions |-> items]])
           IN inflight' = [inflight EXCEPT ![s] =
                  IF Len(items) = 0 THEN Done(slot, "POST /bulk", 400, {})
                  ELSE BulkLoop(slot, 1)]
        /\ issued' = issued + 1
        /\ UNCHANGED <<documents, created, categories>>
        /\ UNCHANGED <<parserVars, uploadRest, ocrVars, serverVars, pageVars>>

\* POST /bulk (lines 319-326): Category.findOne answers for element k
BulkFindCategory ==
    \E s \in Slots :
        /\ inflight[s].req.path = Word("bulk")
        /\ inflight[s].at = "findOne"
        /\ LET slot == inflight[s]
               item == slot.req.body.transactions[slot.k]
               categoryExists == CategoryKey(item.category, item.type, slot.req.user) \in categories
           IN inflight' = [inflight EXCEPT ![s] =
                  IF categoryExists
                  THEN BulkLoop(Pushed(slot), slot.k + 1)
                  ELSE [Looked(slot, CategoryKey(item.category, item.type, slot.req.user),
                               FALSE)
                           EXCEPT !.at = "create"]]
        /\ UNCHANGED <<documents, created, categories, issued>>
        /\ UNCHANGED <<parserVars, uploadRest, ocrVars, serverVars, pageVars>>

\* POST /bulk (lines 326-342, 360-366): Category.create for element k, or the catch's 500
BulkCreateCategory ==
    \E s \in Slots :
        /\ inflight[s].req.path = Word("bulk")
        /\ inflight[s].at = "create"
        /\ LET slot == inflight[s]
               item == slot.req.body.transactions[slot.k]
               key == CategoryKey(item.category, item.type, slot.req.user)
           IN IF key \in categories
              THEN /\ inflight' = [inflight EXCEPT ![s] = Done(slot, "POST /bulk", 500, {})]
                   /\ categories' = categories
              ELSE /\ inflight' = [inflight EXCEPT ![s] =
                          BulkLoop(Pushed(slot), slot.k + 1)]
                   /\ categories' = categories \cup {key}
        /\ UNCHANGED <<documents, created, issued>>
        /\ UNCHANGED <<parserVars, uploadRest, ocrVars, serverVars, pageVars>>

\* POST /bulk (lines 352-359): Transaction.insertMany and the 201 response
BulkInsertMany ==
    \E s \in Slots :
        /\ inflight[s].req.path = Word("bulk")
        /\ inflight[s].at = "insertMany"
        /\ created + Len(inflight[s].validTransactions) <= MaxDocuments
        /\ LET slot == inflight[s]
               docs == {[id |-> created + i, userId |-> slot.req.user,
                         type |-> slot.validTransactions[i].type,
                         category |-> slot.validTransactions[i].category] :
                            i \in 1..Len(slot.validTransactions)}
           IN /\ documents' = documents \cup docs
              /\ created' = created + Len(slot.validTransactions)
              /\ inflight' = [inflight EXCEPT ![s] = Done(slot, "POST /bulk", 201, docs)]
        /\ UNCHANGED <<categories, issued>>
        /\ UNCHANGED <<parserVars, uploadRest, ocrVars, serverVars, pageVars>>

RoutesNext ==
    \/ Get
    \/ Delete
    \/ Post
    \/ PostCreateCategory
    \/ PostSave
    \/ Put
    \/ PutCreateCategory
    \/ PutUpdate
    \/ Bulk
    \/ BulkFindCategory
    \/ BulkCreateCategory
    \/ BulkInsertMany

RoutesSpec == RoutesInit /\ [][RoutesNext]_vars


-----------------------------------------------------------------------------
(* Vocabulary of the properties of the transaction routes *)

Answered == {s \in Slots : inflight[s].at = "done"}

\* The request of slot s names, by _id, a transaction of another user.
NamesForeign(s) ==
    /\ inflight[s].req.path.seg = "id"
    /\ \E d \in documents :
          d.id = inflight[s].req.path.id /\ d.userId # inflight[s].req.user

\* C23 (as claimed): the documents a GET, PUT or DELETE on /:id or the list returns,
\* modifies or deletes belong to the requester, and a request that names another
\* user's transaction is answered 404.
C23_DataIsolation ==
    \A s \in Answered :
        /\ \A d \in inflight[s].returned : d.userId = inflight[s].req.user
        /\ NamesForeign(s) => inflight[s].status = 404

\* C24 (as claimed): GET /summary is answered by the summary handler and GET
\* /categories by the categories handler, with 200; neither is taken by the /:id
\* route and its validation of the id.
C24_SummaryReachesItsHandler ==
    \A s \in Answered :
        /\ (inflight[s].req.method = "GET" /\ inflight[s].req.path = Word("summary")) =>
               (inflight[s].handler = "GET /summary" /\ inflight[s].status = 200)
        /\ (inflight[s].req.method = "GET" /\ inflight[s].req.path = Word("categories")) =>
               (inflight[s].handler = "GET /categories" /\ inflight[s].status = 200)

\* C27 (as claimed): when two POST / or POST /bulk requests of one user both found
\* the same (userId, name, type) category missing, both are answered 201 with their
\* transactions persisted, and the category exists once afterwards.
C27_ConcurrentPostsBothSucceed ==
    \A s \in Answered, q \in Answered :
        (/\ s # q
         /\ inflight[s].req.method = "POST"
         /\ inflight[q].req.method = "POST"
         /\ inflight[s].missed \cap inflight[q].missed # {}) =>
            /\ inflight[s].status = 201
            /\ inflight[q].status = 201
            /\ inflight[s].returned # {}
            /\ inflight[q].returned # {}
            /\ inflight[s].missed \subseteq categories

\* C28 (as claimed): every stored transaction has a Category record with its
\* userId, its category as name and its stored type.
C28_CategoryRecordForEveryTransaction ==
    \A d \in documents : CategoryKey(d.category, d.type, d.userId) \in categories

=============================================================================
